---- MODULE Spec2Model ----
(***************************************************************************)
(* Schema extraction (jsonparsor.py, class SchemaExtractor) and schema     *)
(* diffing (schemadiffertiater.py, class SchemaDiffAnalyzer).              *)
(*                                                                         *)
(* Python strings that the code slices, concatenates or orders (field      *)
(* paths, property names) are sequences of one-character strings, so that  *)
(* startswith, slicing and sorted() work on them as they do in Python.     *)
(* Type names and other strings that are only compared stay TLA+ strings.  *)
(*                                                                         *)
(* A Python dict is a sequence of <<key, value>> pairs in insertion order  *)
(* with pairwise distinct keys; a Python list is a sequence.               *)
(***************************************************************************)
EXTENDS Integers, Sequences, FiniteSets, TLC

VARIABLES
    pc,               \* position of main() of the extract command
    file_exists,      \* os.path.exists(log_file_path)
    line_number,      \* process_log_file: line_number
    lines_read,       \* the lines the file iterator has yielded so far
    schemas,          \* SchemaExtractor.schemas (dict id -> entry, insertion order)
    processed_count,  \* SchemaExtractor.processed_count
    failed_count,     \* SchemaExtractor.failed_count
    failed_records,   \* SchemaExtractor.failed_records
    last_id,          \* value returned by the latest add_schema call
    outputs,          \* the report files written so far
    report,           \* content of the processing report, once written
    exit_status,      \* exit status of the command, "running" until it exits
    va, vb,           \* two JSON values (inputs of the function-level checks)
    sa, sb,           \* get_json_schema(va), get_json_schema(vb)
    diff,             \* compare_schemas(sa, sb)
    fpc,              \* position of the function-level checks
    dpc,              \* position of main() of the diffschemas command
    catalog_file,     \* the schema catalog file given to diffschemas
    analyzer_schemas, \* SchemaDiffAnalyzer.schemas
    baseline_schema_id, \* SchemaDiffAnalyzer.baseline_schema_id
    baseline_schema,  \* SchemaDiffAnalyzer.baseline_schema
    differences,      \* SchemaDiffAnalyzer.differences (insertion order)
    diff_outputs,     \* the report files diffschemas has written
    text_report,      \* content of the detailed text report, once written
    json_report,      \* content of the JSON report, once written
    diff_exit_status  \* exit status of diffschemas, "running" until it exits

vars == <<pc, file_exists, line_number, lines_read, schemas, processed_count,
          failed_count, failed_records, last_id, outputs, report,
          exit_status, va, vb, sa, sb, diff, fpc,
          dpc, catalog_file, analyzer_schemas, baseline_schema_id,
          baseline_schema, differences, diff_outputs, text_report,
          json_report, diff_exit_status>>

extractVars == <<pc, file_exists, line_number, lines_read, schemas,
                 processed_count, failed_count, failed_records, last_id,
                 outputs, report, exit_status>>

funcVars == <<va, vb, sa, sb, diff, fpc>>

diffVars == <<dpc, catalog_file, analyzer_schemas, baseline_schema_id,
              baseline_schema, differences, diff_outputs, text_report,
              json_report, diff_exit_status>>

-----------------------------------------------------------------------------
(* Strings as character sequences.                                         *)

\* ord() of the characters that occur in keys and paths.
Ord(c) ==
    CASE c = "." -> 46
      [] c = "0" -> 48
      [] c = "1" -> 49
      [] c = "2" -> 50
      [] c = "3" -> 51
      [] c = "4" -> 52
      [] c = "[" -> 91
      [] c = "]" -> 93
      [] c = "a" -> 97
      [] c = "b" -> 98
      [] c = "c" -> 99
      [] c = "o" -> 111
      [] c = "r" -> 114
      [] c = "t" -> 116
      [] c = "x" -> 120

\* Python's < on str: lexicographic by code point, a proper prefix is smaller.
RECURSIVE StrLess(_, _)
StrLess(s, t) ==
    IF t = <<>> THEN FALSE
    ELSE IF s = <<>> THEN TRUE
    ELSE IF Ord(Head(s)) # Ord(Head(t)) THEN Ord(Head(s)) < Ord(Head(t))
    ELSE StrLess(Tail(s), Tail(t))

\* str.startswith
StartsWith(s, prefix) ==
    /\ Len(prefix) <= Len(s)
    /\ SubSeq(s, 1, Len(prefix)) = prefix

\* s[n:] for n >= 0
SliceFrom(s, n) == SubSeq(s, n + 1, Len(s))

\* str(i) for the list indices the inferencer formats
Digit(i) ==
    CASE i = 0 -> <<"0">>
      [] i = 1 -> <<"1">>
      [] i = 2 -> <<"2">>
      [] i = 3 -> <<"3">>
      [] i = 4 -> <<"4">>

RemoveAt(s, i) == SubSeq(s, 1, i - 1) \o SubSeq(s, i + 1, Len(s))

\* sorted(v) for a list of str: stable selection of the least element.
RECURSIVE SortedStrs(_)
SortedStrs(v) ==
    IF v = <<>> THEN <<>>
    ELSE LET i == CHOOSE i \in 1..Len(v) :
                     /\ \A j \in 1..Len(v) : ~StrLess(v[j], v[i])
                     /\ \A j \in 1..(i - 1) : StrLess(v[i], v[j])
         IN  <<v[i]>> \o SortedStrs(RemoveAt(v, i))

\* sorted(d.items()) for a dict with str keys (keys are distinct, so the
\* tuple comparison never reaches the values).
RECURSIVE SortedItems(_)
SortedItems(d) ==
    IF d = <<>> THEN <<>>
    ELSE LET i == CHOOSE i \in 1..Len(d) :
                     \A j \in 1..Len(d) : ~StrLess(d[j][1], d[i][1])
         IN  <<d[i]>> \o SortedItems(RemoveAt(d, i))

DictKeys(d) == [i \in 1..Len(d) |-> d[i][1]]
KeySet(d) == {d[i][1] : i \in 1..Len(d)}
HasKey(d, key) == \E i \in 1..Len(d) : d[i][1] = key
DictGet(d, key) == d[CHOOSE i \in 1..Len(d) : d[i][1] = key][2]

-----------------------------------------------------------------------------
(* SchemaExtractor.get_json_schema                                         *)
(* A JSON value is [k |-> kind, v |-> text] for null, bool, int, float and *)
(* str, [k |-> "list", elems |-> <<...>>] and [k |-> "dict", items |->     *)
(* << <<key, value>>, ... >>].                                             *)

RootPath == <<"r", "o", "o", "t">>

\* obj[:5], the number of list items the inferencer looks at
SampleItems == 5

Min(m, n) == IF m < n THEN m ELSE n

\* get_json_schema describing a list by the last item it examined.
RECURSIVE get_json_schema_last_item(_, _)
get_json_schema_last_item(obj, path) ==
    CASE obj.k = "null"  -> [type |-> "null", path |-> path]
      [] obj.k = "bool"  -> [type |-> "boolean", path |-> path]
      [] obj.k = "int"   -> [type |-> "integer", path |-> path]
      [] obj.k = "float" -> [type |-> "number", path |-> path]
      [] obj.k = "str"   -> [type |-> "string", path |-> path]
      [] obj.k = "list"  ->
            IF obj.elems = <<>>
            THEN [type |-> "array", items |-> [type |-> "unknown"], path |-> path]
            ELSE LET item_schemas ==
                        [i \in 1..Min(Len(obj.elems), SampleItems) |->
                            get_json_schema_last_item(obj.elems[i],
                                path \o <<"[">> \o Digit(i - 1) \o <<"]">>)]
                 IN  [type |-> "array",
                      items |-> item_schemas[Len(item_schemas)],
                      path |-> path]
      [] obj.k = "dict"  ->
            [type |-> "object",
             properties |->
                [i \in 1..Len(obj.items) |->
                    <<obj.items[i][1],
                      get_json_schema_last_item(obj.items[i][2],
                                      path \o <<".">> \o obj.items[i][1])>>],
             required |-> DictKeys(obj.items),
             path |-> path]
      [] OTHER -> [type |-> "unknown", value_type |-> obj.k, path |-> path]

\* get_json_schema listing in 'required' only the keys whose value is not
\* itself an object.
RECURSIVE get_json_schema_required_leaves(_, _)
get_json_schema_required_leaves(obj, path) ==
    CASE obj.k = "null"  -> [type |-> "null", path |-> path]
      [] obj.k = "bool"  -> [type |-> "boolean", path |-> path]
      [] obj.k = "int"   -> [type |-> "integer", path |-> path]
      [] obj.k = "float" -> [type |-> "number", path |-> path]
      [] obj.k = "str"   -> [type |-> "string", path |-> path]
      [] obj.k = "list"  ->
            IF obj.elems = <<>>
            THEN [type |-> "array", items |-> [type |-> "unknown"], path |-> path]
            ELSE LET item_schemas ==
                        [i \in 1..Min(Len(obj.elems), SampleItems) |->
                            get_json_schema_required_leaves(obj.elems[i],
                                path \o <<"[">> \o Digit(i - 1) \o <<"]">>)]
                 IN  [type |-> "array", items |-> item_schemas[1], path |-> path]
      [] obj.k = "dict"  ->
            [type |-> "object",
             properties |->
                [i \in 1..Len(obj.items) |->
                    <<obj.items[i][1],
                      get_json_schema_required_leaves(obj.items[i][2],
                                      path \o <<".">> \o obj.items[i][1])>>],
             required |->
                LET leaves == {i \in 1..Len(obj.items) :
                                  obj.items[i][2].k # "dict"}
                    RECURSIVE Pick(_)
                    Pick(i) == IF i > Len(obj.items) THEN <<>>
                               ELSE IF i \in leaves
                               THEN <<obj.items[i][1]>> \o Pick(i + 1)
                               ELSE Pick(i + 1)
                IN  Pick(1),
             path |-> path]
      [] OTHER -> [type |-> "unknown", value_type |-> obj.k, path |-> path]

RECURSIVE get_json_schema(_, _)
get_json_schema(obj, path) ==
    CASE obj.k = "null"  -> [type |-> "null", path |-> path]
      [] obj.k = "bool"  -> [type |-> "boolean", path |-> path]
      [] obj.k = "int"   -> [type |-> "integer", path |-> path]
      [] obj.k = "float" -> [type |-> "number", path |-> path]
      [] obj.k = "str"   -> [type |-> "string", path |-> path]
      [] obj.k = "list"  ->
            IF obj.elems = <<>>
            THEN [type |-> "array", items |-> [type |-> "unknown"], path |-> path]
            ELSE LET item_schemas ==
                        [i \in 1..Min(Len(obj.elems), SampleItems) |->
                            get_json_schema(obj.elems[i],
                                path \o <<"[">> \o Digit(i - 1) \o <<"]">>)]
                 IN  [type |-> "array", items |-> item_schemas[1], path |-> path]
      [] obj.k = "dict"  ->
            [type |-> "object",
             properties |->
                [i \in 1..Len(obj.items) |->
                    <<obj.items[i][1],
                      get_json_schema(obj.items[i][2],
                                      path \o <<".">> \o obj.items[i][1])>>],
             required |-> DictKeys(obj.items),
             path |-> path]
      [] OTHER -> [type |-> "unknown", value_type |-> obj.k, path |-> path]

-----------------------------------------------------------------------------
(* SchemaExtractor.normalize_schema_for_comparison and schemas_equal       *)

\* normalize_schema_for_comparison leaving 'required' in insertion order.
RECURSIVE normalize_required_unsorted(_)
normalize_required_unsorted(schema) ==
    [f \in DOMAIN schema \ {"path"} |->
        CASE f = "properties" ->
                LET srt == SortedItems(schema[f])
                IN  [i \in 1..Len(srt) |->
                        <<srt[i][1], normalize_required_unsorted(srt[i][2])>>]
          [] f = "items" -> normalize_required_unsorted(schema[f])
          [] OTHER -> schema[f]]

\* v[::-1]
Reversed(v) == [i \in 1..Len(v) |-> v[Len(v) + 1 - i]]

\* normalize_schema_for_comparison reversing 'required' instead of sorting it.
RECURSIVE normalize_required_reversed(_)
normalize_required_reversed(schema) ==
    [f \in DOMAIN schema \ {"path"} |->
        CASE f = "required" -> Reversed(schema[f])
          [] f = "properties" ->
                LET srt == SortedItems(schema[f])
                IN  [i \in 1..Len(srt) |->
                        <<srt[i][1], normalize_required_reversed(srt[i][2])>>]
          [] f = "items" -> normalize_required_reversed(schema[f])
          [] OTHER -> schema[f]]

RECURSIVE normalize_schema_for_comparison(_)
normalize_schema_for_comparison(schema) ==
    [f \in DOMAIN schema \ {"path"} |->
        CASE f = "required" -> SortedStrs(schema[f])
          [] f = "properties" ->
                LET srt == SortedItems(schema[f])
                IN  [i \in 1..Len(srt) |->
                        <<srt[i][1], normalize_schema_for_comparison(srt[i][2])>>]
          [] f = "items" -> normalize_schema_for_comparison(schema[f])
          [] OTHER -> schema[f]]

\* Python's == on two schema dicts: dicts compare as mappings (key order is
\* ignored), lists compare element by element in order.
RECURSIVE PyEq(_, _)
PyEq(x, y) ==
    /\ DOMAIN x = DOMAIN y
    /\ \A f \in DOMAIN x :
          CASE f = "properties" ->
                  /\ KeySet(x[f]) = KeySet(y[f])
                  /\ \A key \in KeySet(x[f]) :
                        PyEq(DictGet(x[f], key), DictGet(y[f], key))
            [] f = "items" -> PyEq(x[f], y[f])
            [] OTHER -> x[f] = y[f]

\* schemas_equal comparing the schemas as inferred, without normalizing them.
schemas_equal_raw(schema1, schema2) == PyEq(schema1, schema2)

schemas_equal(schema1, schema2) ==
    LET normalized1 == normalize_schema_for_comparison(schema1)
        normalized2 == normalize_schema_for_comparison(schema2)
    IN  PyEq(normalized1, normalized2)

-----------------------------------------------------------------------------
(* SchemaExtractor.add_schema                                              *)

\* f"schema_{n}"
SchemaId(n) == "schema_" \o ToString(n)

\* d[key] = value on an insertion-ordered dict
DictSet(d, key, value) ==
    IF HasKey(d, key)
    THEN [i \in 1..Len(d) |-> IF d[i][1] = key THEN <<key, value>> ELSE d[i]]
    ELSE Append(d, <<key, value>>)

\* The scan comparing the new schema with the latest entry only.
FirstMatch_last_only(reg, schema) ==
    IF Len(reg) > 0 /\ schemas_equal(schema, reg[Len(reg)][2].schema)
    THEN Len(reg)
    ELSE 0

\* Index of the first entry, in insertion order, whose stored schema equals
\* the given one; 0 when the loop falls through.
FirstMatch(reg, schema) ==
    IF \E i \in 1..Len(reg) : schemas_equal(schema, reg[i][2].schema)
    THEN CHOOSE i \in 1..Len(reg) :
            /\ schemas_equal(schema, reg[i][2].schema)
            /\ \A j \in 1..(i - 1) : ~schemas_equal(schema, reg[j][2].schema)
    ELSE 0

\* add_schema with a match counted but its line not recorded.
add_schema_no_sample(reg, schema, record_line) ==
    LET m == FirstMatch(reg, schema)
    IN  IF m # 0
        THEN [reg |-> [reg EXCEPT ![m][2].count = @ + 1],
              ret |-> reg[m][1]]
        ELSE LET schema_id == SchemaId(Len(reg) + 1)
             IN  [reg |-> DictSet(reg, schema_id,
                             [schema |-> schema,
                              count |-> 1,
                              sample_lines |-> <<record_line>>,
                              first_seen |-> record_line]),
                  ret |-> schema_id]

\* add_schema numbering the ids from len(self.schemas) instead of len + 1.
add_schema_id_from_zero(reg, schema, record_line) ==
    LET m == FirstMatch(reg, schema)
    IN  IF m # 0
        THEN [reg |-> [reg EXCEPT
                         ![m][2].count = @ + 1,
                         ![m][2].sample_lines = Append(@, record_line)],
              ret |-> reg[m][1]]
        ELSE LET schema_id == SchemaId(Len(reg))
             IN  [reg |-> DictSet(reg, schema_id,
                             [schema |-> schema,
                              count |-> 1,
                              sample_lines |-> <<record_line>>,
                              first_seen |-> record_line]),
                  ret |-> schema_id]

\* add_schema keeping only the first five sample lines of an entry.
add_schema_bounded_samples(reg, schema, record_line) ==
    LET m == FirstMatch(reg, schema)
    IN  IF m # 0
        THEN [reg |-> [reg EXCEPT
                         ![m][2].count = @ + 1,
                         ![m][2].sample_lines =
                            IF Len(@) < 5 THEN Append(@, record_line) ELSE @],
              ret |-> reg[m][1]]
        ELSE LET schema_id == SchemaId(Len(reg) + 1)
             IN  [reg |-> DictSet(reg, schema_id,
                             [schema |-> schema,
                              count |-> 1,
                              sample_lines |-> <<record_line>>,
                              first_seen |-> record_line]),
                  ret |-> schema_id]

\* add_schema moving first_seen to the line of the latest match.
add_schema_first_seen_updated(reg, schema, record_line) ==
    LET m == FirstMatch(reg, schema)
    IN  IF m # 0
        THEN [reg |-> [reg EXCEPT
                         ![m][2].count = @ + 1,
                         ![m][2].sample_lines = Append(@, record_line),
                         ![m][2].first_seen = record_line],
              ret |-> reg[m][1]]
        ELSE LET schema_id == SchemaId(Len(reg) + 1)
             IN  [reg |-> DictSet(reg, schema_id,
                             [schema |-> schema,
                              count |-> 1,
                              sample_lines |-> <<record_line>>,
                              first_seen |-> record_line]),
                  ret |-> schema_id]

\* add_schema comparing the new schema with the first entry only.
add_schema_first_entry_only(reg, schema, record_line) ==
    LET m == IF Len(reg) > 0 /\ schemas_equal(schema, reg[1][2].schema)
             THEN 1 ELSE 0
    IN  IF m # 0
        THEN [reg |-> [reg EXCEPT
                         ![m][2].count = @ + 1,
                         ![m][2].sample_lines = Append(@, record_line)],
              ret |-> reg[m][1]]
        ELSE LET schema_id == SchemaId(Len(reg) + 1)
             IN  [reg |-> DictSet(reg, schema_id,
                             [schema |-> schema,
                              count |-> 1,
                              sample_lines |-> <<record_line>>,
                              first_seen |-> record_line]),
                  ret |-> schema_id]

\* add_schema replacing, on a match, the stored schema by the new one.
add_schema_restores_schema(reg, schema, record_line) ==
    LET m == FirstMatch(reg, schema)
    IN  IF m # 0
        THEN [reg |-> [reg EXCEPT
                         ![m][2].schema = schema,
                         ![m][2].count = @ + 1,
                         ![m][2].sample_lines = Append(@, record_line)],
              ret |-> reg[m][1]]
        ELSE LET schema_id == SchemaId(Len(reg) + 1)
             IN  [reg |-> DictSet(reg, schema_id,
                             [schema |-> schema,
                              count |-> 1,
                              sample_lines |-> <<record_line>>,
                              first_seen |-> record_line]),
                  ret |-> schema_id]

\* The registry after the call and the returned id.
add_schema(reg, schema, record_line) ==
    LET m == FirstMatch(reg, schema)
    IN  IF m # 0
        THEN [reg |-> [reg EXCEPT
                         ![m][2].count = @ + 1,
                         ![m][2].sample_lines = Append(@, record_line)],
              ret |-> reg[m][1]]
        ELSE LET schema_id == SchemaId(Len(reg) + 1)
             IN  [reg |-> DictSet(reg, schema_id,
                             [schema |-> schema,
                              count |-> 1,
                              sample_lines |-> <<record_line>>,
                              first_seen |-> record_line]),
                  ret |-> schema_id]

-----------------------------------------------------------------------------
(* SchemaDiffAnalyzer.get_all_paths, get_field_info, compare_schemas       *)

Dot == <<".">>
Brackets == <<"[", "]">>

RECURSIVE get_all_paths(_, _)
get_all_paths(schema, parent_path) ==
    IF schema.type = "object" /\ "properties" \in DOMAIN schema
    THEN UNION {
            LET prop_name == schema.properties[i][1]
                prop_schema == schema.properties[i][2]
                current_path == IF parent_path # <<>>
                                THEN parent_path \o Dot \o prop_name
                                ELSE prop_name
            IN  {current_path} \cup get_all_paths(prop_schema, current_path)
            : i \in 1..Len(schema.properties)}
    ELSE IF schema.type = "array" /\ "items" \in DOMAIN schema
    THEN get_all_paths(schema.items, parent_path \o Brackets)
    ELSE {}

\* The None that get_field_info returns when it resolves nothing.
None == [none |-> TRUE]

\* FieldInfoFrom looking the field's path, not its name, up in 'required'.
RECURSIVE FieldInfoFrom_required_by_path(_, _, _, _)
FieldInfoFrom_required_by_path(schema, target_path, current_path, i) ==
    IF schema.type = "object" /\ "properties" \in DOMAIN schema
    THEN IF i > Len(schema.properties) THEN None
         ELSE LET prop_name == schema.properties[i][1]
                  prop_schema == schema.properties[i][2]
                  field_path == IF current_path # <<>>
                                THEN current_path \o Dot \o prop_name
                                ELSE prop_name
              IN  IF field_path = target_path
                  THEN [type |-> prop_schema.type,
                        required |->
                            IF "required" \in DOMAIN schema
                            THEN \E j \in 1..Len(schema.required) :
                                    schema.required[j] = field_path
                            ELSE FALSE,
                        path |-> field_path]
                  ELSE IF StartsWith(target_path, field_path \o Dot)
                  THEN FieldInfoFrom_required_by_path(prop_schema, target_path,
                                                      field_path, 1)
                  ELSE FieldInfoFrom_required_by_path(schema, target_path,
                                                      current_path, i + 1)
    ELSE IF schema.type = "array" /\ "items" \in DOMAIN schema
    THEN LET array_path == current_path \o Brackets
         IN  IF StartsWith(target_path, array_path)
             THEN LET remaining_path ==
                          SliceFrom(target_path, Len(array_path) + 1)
                  IN  IF remaining_path # <<>>
                      THEN FieldInfoFrom_required_by_path(schema.items,
                                                          remaining_path,
                                                          array_path, 1)
                      ELSE None
             ELSE None
    ELSE None

\* get_field_info; i is the position of the loop over schema['properties'].
RECURSIVE FieldInfoFrom(_, _, _, _)
FieldInfoFrom(schema, target_path, current_path, i) ==
    IF schema.type = "object" /\ "properties" \in DOMAIN schema
    THEN IF i > Len(schema.properties) THEN None
         ELSE LET prop_name == schema.properties[i][1]
                  prop_schema == schema.properties[i][2]
                  field_path == IF current_path # <<>>
                                THEN current_path \o Dot \o prop_name
                                ELSE prop_name
              IN  IF field_path = target_path
                  THEN [type |-> prop_schema.type,
                        required |->
                            IF "required" \in DOMAIN schema
                            THEN \E j \in 1..Len(schema.required) :
                                    schema.required[j] = prop_name
                            ELSE FALSE,
                        path |-> field_path]
                  ELSE IF StartsWith(target_path, field_path \o Dot)
                  THEN FieldInfoFrom(prop_schema, target_path, field_path, 1)
                  ELSE FieldInfoFrom(schema, target_path, current_path, i + 1)
    ELSE IF schema.type = "array" /\ "items" \in DOMAIN schema
    THEN LET array_path == current_path \o Brackets
         IN  IF StartsWith(target_path, array_path)
             THEN LET remaining_path ==
                          SliceFrom(target_path, Len(array_path) + 1)
                  IN  IF remaining_path # <<>>
                      THEN FieldInfoFrom(schema.items, remaining_path,
                                         array_path, 1)
                      ELSE None
             ELSE None
    ELSE None

get_field_info(schema, target_path) ==
    FieldInfoFrom(schema, target_path, <<>>, 1)

\* sorted(list(s)) for a set of str
RECURSIVE SortedSet(_)
SortedSet(S) ==
    IF S = {} THEN <<>>
    ELSE LET m == CHOOSE m \in S : \A x \in S : ~StrLess(x, m)
         IN  <<m>> \o SortedSet(S \ {m})

\* The orders in which "for path in common_paths" can visit a set: the
\* iteration order of a set of str is not fixed by the language (string
\* hashing is randomised per process).
IterOrders(S) ==
    {o \in [1..Cardinality(S) -> S] :
        \A i, j \in 1..Cardinality(S) : i # j => o[i] # o[j]}

\* TypeDiffAt comparing the required flags before the types.
TypeDiffAt_required_first(schema1, schema2, path) ==
    LET baseline_info == get_field_info(schema1, path)
        comparison_info == get_field_info(schema2, path)
    IN  IF baseline_info # None /\ comparison_info # None
        THEN IF baseline_info.required # comparison_info.required
             THEN << [path |-> path,
                      baseline_required |-> baseline_info.required,
                      comparison_required |-> comparison_info.required,
                      difference_type |-> "required_status"] >>
             ELSE IF baseline_info.type # comparison_info.type
             THEN << [path |-> path,
                      baseline_type |-> baseline_info.type,
                      comparison_type |-> comparison_info.type] >>
             ELSE <<>>
        ELSE <<>>

\* What one iteration of the loop over common_paths appends.
TypeDiffAt(schema1, schema2, path) ==
    LET baseline_info == get_field_info(schema1, path)
        comparison_info == get_field_info(schema2, path)
    IN  IF baseline_info # None /\ comparison_info # None
        THEN IF baseline_info.type # comparison_info.type
             THEN << [path |-> path,
                      baseline_type |-> baseline_info.type,
                      comparison_type |-> comparison_info.type] >>
             ELSE IF baseline_info.required # comparison_info.required
             THEN << [path |-> path,
                      baseline_required |-> baseline_info.required,
                      comparison_required |-> comparison_info.required,
                      difference_type |-> "required_status"] >>
             ELSE <<>>
        ELSE <<>>

RECURSIVE TypeDiffLoop(_, _, _, _)
TypeDiffLoop(schema1, schema2, order, i) ==
    IF i > Len(order) THEN <<>>
    ELSE TypeDiffAt(schema1, schema2, order[i])
            \o TypeDiffLoop(schema1, schema2, order, i + 1)

CommonPaths(schema1, schema2) ==
    get_all_paths(schema1, <<>>) \cap get_all_paths(schema2, <<>>)

\* compare_schemas subtracting the added paths, not the comparison paths,
\* from the baseline paths.
compare_schemas_missing_wrong(schema1, schema2, order) ==
    LET baseline_paths == get_all_paths(schema1, <<>>)
        comparison_paths == get_all_paths(schema2, <<>>)
        added_in_comparison == comparison_paths \ baseline_paths
        missing_in_comparison == baseline_paths \ added_in_comparison
        common_paths == baseline_paths \cap comparison_paths
    IN  [missing_fields |-> SortedSet(missing_in_comparison),
         additional_fields |-> SortedSet(added_in_comparison),
         type_differences |-> TypeDiffLoop(schema1, schema2, order, 1),
         total_baseline_fields |-> Cardinality(baseline_paths),
         total_comparison_fields |-> Cardinality(comparison_paths),
         common_fields |-> Cardinality(common_paths)]

\* compare_schemas reporting every comparison path as added.
compare_schemas_added_all(schema1, schema2, order) ==
    LET baseline_paths == get_all_paths(schema1, <<>>)
        comparison_paths == get_all_paths(schema2, <<>>)
        missing_in_comparison == baseline_paths \ comparison_paths
        added_in_comparison == comparison_paths
        common_paths == baseline_paths \cap comparison_paths
    IN  [missing_fields |-> SortedSet(missing_in_comparison),
         additional_fields |-> SortedSet(added_in_comparison),
         type_differences |-> TypeDiffLoop(schema1, schema2, order, 1),
         total_baseline_fields |-> Cardinality(baseline_paths),
         total_comparison_fields |-> Cardinality(comparison_paths),
         common_fields |-> Cardinality(common_paths)]

\* compare_schemas; order is the order in which the loop visits common_paths.
compare_schemas(schema1, schema2, order) ==
    LET baseline_paths == get_all_paths(schema1, <<>>)
        comparison_paths == get_all_paths(schema2, <<>>)
        missing_in_comparison == baseline_paths \ comparison_paths
        added_in_comparison == comparison_paths \ baseline_paths
        common_paths == baseline_paths \cap comparison_paths
    IN  [missing_fields |-> SortedSet(missing_in_comparison),
         additional_fields |-> SortedSet(added_in_comparison),
         type_differences |-> TypeDiffLoop(schema1, schema2, order, 1),
         total_baseline_fields |-> Cardinality(baseline_paths),
         total_comparison_fields |-> Cardinality(comparison_paths),
         common_fields |-> Cardinality(common_paths)]

-----------------------------------------------------------------------------
(* Inputs of the extract command.                                          *)

\* Longest input file explored.
MaxLines == 6

JInt(t) == [k |-> "int", v |-> t]
JStr(t) == [k |-> "str", v |-> t]
JBool(t) == [k |-> "bool", v |-> t]
JNull == [k |-> "null", v |-> "null"]
JFloat(t) == [k |-> "float", v |-> t]
JList(e) == [k |-> "list", elems |-> e]
JDict(i) == [k |-> "dict", items |-> i]

\* {"a": 1, "b": "x"}
RecAB == JDict(<< <<(<<"a">>), JInt("1")>>, <<(<<"b">>), JStr("x")>> >>)
\* {"b": "y", "a": 2}
RecBA == JDict(<< <<(<<"b">>), JStr("y")>>, <<(<<"a">>), JInt("2")>> >>)
\* {"a": 1}
RecA == JDict(<< <<(<<"a">>), JInt("1")>> >>)

\* A line of the file: whitespace only, text json.loads rejects, or a record.
Lines ==
    {[kind |-> "blank", raw |-> "  "],
     [kind |-> "invalid", raw |-> "{oops"]}
    \cup {[kind |-> "json", raw |-> "record", value |-> r] :
            r \in {RecAB, RecBA, RecA}}

\* line.strip()
Strip(line) == IF line.kind = "blank" THEN "" ELSE line.raw

NoDiff == [missing_fields |-> <<>>, additional_fields |-> <<>>,
           type_differences |-> <<>>, total_baseline_fields |-> 0,
           total_comparison_fields |-> 0, common_fields |-> 0]
NoValue == JNull
NoReport == [processed |-> 0, failed |-> 0, unique |-> 0,
             schema_summary |-> <<>>, failed_summary |-> <<>>, more_failed |-> 0]
NoSchema == [type |-> "unknown"]

FuncIdle ==
    /\ va = NoValue /\ vb = NoValue /\ sa = NoSchema /\ sb = NoSchema
    /\ diff = NoDiff /\ fpc = "off"

\* baseline_schema_id = None, before load_schemas sets it
NoId == "None"
NoTextReport == [baseline |-> NoId, comparisons |-> <<>>]
NoJsonReport == [metadata |-> [baseline_schema_id |-> NoId, total_schemas |-> 0],
                 schema_comparisons |-> <<>>]

\* SchemaDiffAnalyzer.__init__
AnalyzerInit ==
    /\ analyzer_schemas = <<>>
    /\ baseline_schema_id = NoId
    /\ baseline_schema = None
    /\ differences = <<>>
    /\ diff_outputs = {}
    /\ text_report = NoTextReport
    /\ json_report = NoJsonReport
    /\ diff_exit_status = "running"

DiffIdle ==
    /\ dpc = "off"
    /\ catalog_file = [kind |-> "missing"]
    /\ AnalyzerInit

-----------------------------------------------------------------------------
(* The extract command: main() of jsonparsor.py.                           *)

\* SchemaExtractor.__init__, before process_log_file is called.
Init ==
    /\ pc = "open"
    /\ file_exists \in BOOLEAN
    /\ line_number = 0
    /\ lines_read = <<>>
    /\ schemas = <<>>
    /\ processed_count = 0
    /\ failed_count = 0
    /\ failed_records = <<>>
    /\ last_id = ""
    /\ outputs = {}
    /\ report = NoReport
    /\ exit_status = "running"
    /\ FuncIdle
    /\ DiffIdle

\* process_log_file up to the open(): the existence check passes.
OpenLog ==
    /\ pc = "open"
    /\ file_exists
    /\ pc' = "streaming"
    /\ UNCHANGED <<file_exists, line_number, lines_read, schemas,
                   processed_count, failed_count, failed_records, last_id,
                   outputs, report, exit_status>>
    /\ UNCHANGED funcVars
    /\ UNCHANGED diffVars

\* LogNotFound with process_log_file returning, not raising, when the file
\* is missing: main goes on to save_results.
LogNotFoundReturns ==
    /\ pc = "open"
    /\ ~file_exists
    /\ pc' = "save"
    /\ UNCHANGED <<file_exists, line_number, lines_read, schemas,
                   processed_count, failed_count, failed_records, last_id,
                   outputs, report, exit_status>>
    /\ UNCHANGED funcVars
    /\ UNCHANGED diffVars

\* process_log_file raises FileNotFoundError; main prints it and exits 1.
LogNotFound ==
    /\ pc = "open"
    /\ ~file_exists
    /\ pc' = "exit"
    /\ exit_status' = "1"
    /\ UNCHANGED <<file_exists, line_number, lines_read, schemas,
                   processed_count, failed_count, failed_records, last_id,
                   outputs, report>>
    /\ UNCHANGED funcVars
    /\ UNCHANGED diffVars

\* ProcessLine leaving the loop at the first line that fails to parse.
ProcessLineAbort(line) ==
    /\ pc = "streaming"
    /\ line_number < MaxLines
    /\ line_number' = line_number + 1
    /\ lines_read' = Append(lines_read, line)
    /\ IF Strip(line) = ""
       THEN UNCHANGED <<pc, schemas, processed_count, failed_count,
                        failed_records, last_id>>
       ELSE IF line.kind = "json"
       THEN LET schema == get_json_schema(line.value, RootPath)
                r == add_schema(schemas, schema, line_number')
            IN  /\ schemas' = r.reg
                /\ last_id' = r.ret
                /\ processed_count' = processed_count + 1
                /\ UNCHANGED <<pc, failed_count, failed_records>>
       ELSE /\ failed_count' = failed_count + 1
            /\ failed_records' = Append(failed_records,
                                    [line_number |-> line_number',
                                     content |-> Strip(line),
                                     error |-> "JSONDecodeError"])
            /\ pc' = "save"
            /\ UNCHANGED <<schemas, processed_count, last_id>>
    /\ UNCHANGED <<file_exists, outputs, report, exit_status>>
    /\ UNCHANGED funcVars
    /\ UNCHANGED diffVars

\* ProcessLine with line_number incremented after the blank-line test, so
\* that blank lines are not numbered.
ProcessLineBlankUncounted(line) ==
    /\ pc = "streaming"
    /\ Len(lines_read) < MaxLines
    /\ lines_read' = Append(lines_read, line)
    /\ IF Strip(line) = ""
       THEN UNCHANGED <<line_number, schemas, processed_count, failed_count,
                        failed_records, last_id>>
       ELSE /\ line_number' = line_number + 1
            /\ IF line.kind = "json"
               THEN LET schema == get_json_schema(line.value, RootPath)
                        r == add_schema(schemas, schema, line_number')
                    IN  /\ schemas' = r.reg
                        /\ last_id' = r.ret
                        /\ processed_count' = processed_count + 1
                        /\ UNCHANGED <<failed_count, failed_records>>
               ELSE /\ failed_count' = failed_count + 1
                    /\ failed_records' = Append(failed_records,
                                            [line_number |-> line_number',
                                             content |-> Strip(line),
                                             error |-> "JSONDecodeError"])
                    /\ UNCHANGED <<schemas, processed_count, last_id>>
    /\ UNCHANGED <<pc, file_exists, outputs, report, exit_status>>
    /\ UNCHANGED funcVars
    /\ UNCHANGED diffVars

\* ProcessLine with processed_count incremented before json.loads, so that
\* a line that fails to parse is counted as processed too.
ProcessLineCountsEarly(line) ==
    /\ pc = "streaming"
    /\ line_number < MaxLines
    /\ line_number' = line_number + 1
    /\ lines_read' = Append(lines_read, line)
    /\ IF Strip(line) = ""
       THEN UNCHANGED <<schemas, processed_count, failed_count,
                        failed_records, last_id>>
       ELSE IF line.kind = "json"
       THEN LET schema == get_json_schema(line.value, RootPath)
                r == add_schema(schemas, schema, line_number')
            IN  /\ schemas' = r.reg
                /\ last_id' = r.ret
                /\ processed_count' = processed_count + 1
                /\ UNCHANGED <<failed_count, failed_records>>
       ELSE /\ processed_count' = processed_count + 1
            /\ failed_count' = failed_count + 1
            /\ failed_records' = Append(failed_records,
                                    [line_number |-> line_number',
                                     content |-> Strip(line),
                                     error |-> "JSONDecodeError"])
            /\ UNCHANGED <<schemas, last_id>>
    /\ UNCHANGED <<pc, file_exists, outputs, report, exit_status>>
    /\ UNCHANGED funcVars
    /\ UNCHANGED diffVars

\* One iteration of "for line in file". On the inputs explored neither
\* get_json_schema nor add_schema raises, so the only failure is the
\* JSONDecodeError of a line that does not parse.
ProcessLine(line) ==
    /\ pc = "streaming"
    /\ line_number < MaxLines
    /\ line_number' = line_number + 1
    /\ lines_read' = Append(lines_read, line)
    /\ IF Strip(line) = ""
       THEN UNCHANGED <<schemas, processed_count, failed_count,
                        failed_records, last_id>>
       ELSE IF line.kind = "json"
       THEN LET schema == get_json_schema(line.value, RootPath)
                r == add_schema(schemas, schema, line_number')
            IN  /\ schemas' = r.reg
                /\ last_id' = r.ret
                /\ processed_count' = processed_count + 1
                /\ UNCHANGED <<failed_count, failed_records>>
       ELSE /\ failed_count' = failed_count + 1
            /\ failed_records' = Append(failed_records,
                                    [line_number |-> line_number',
                                     content |-> Strip(line),
                                     error |-> "JSONDecodeError"])
            /\ UNCHANGED <<schemas, processed_count, last_id>>
    /\ UNCHANGED <<pc, file_exists, outputs, report, exit_status>>
    /\ UNCHANGED funcVars
    /\ UNCHANGED diffVars

\* The file iterator is exhausted; process_log_file returns.
EndOfInput ==
    /\ pc = "streaming"
    /\ pc' = "save"
    /\ UNCHANGED <<file_exists, line_number, lines_read, schemas,
                   processed_count, failed_count, failed_records, last_id,
                   outputs, report, exit_status>>
    /\ UNCHANGED funcVars
    /\ UNCHANGED diffVars

\* sample_lines[:5] in the report
ReportSampleLines == 5
\* failed_records[:10] in the report
ReportFailedRecords == 10

\* s[:n]
Take(s, n) == SubSeq(s, 1, Min(Len(s), n))

\* What save_summary_report writes: the statistics, one block per schema
\* and the head of the failure list with the count of the rest.
save_summary_report ==
    [processed |-> processed_count,
     failed |-> failed_count,
     unique |-> Len(schemas),
     schema_summary |->
        [i \in 1..Len(schemas) |->
            [id |-> schemas[i][1],
             occurrences |-> schemas[i][2].count,
             first_seen |-> schemas[i][2].first_seen,
             sample_lines |-> Take(schemas[i][2].sample_lines, ReportSampleLines)]],
     failed_summary |->
        [i \in 1..Min(Len(failed_records), ReportFailedRecords) |->
            [line_number |-> failed_records[i].line_number,
             error |-> failed_records[i].error]],
     more_failed |-> IF Len(failed_records) > ReportFailedRecords
                     THEN Len(failed_records) - ReportFailedRecords
                     ELSE 0]

\* SaveResults emptying the failure list once it is written.
SaveResultsDraining ==
    /\ pc = "save"
    /\ outputs' = outputs \cup {"unique_schemas", "processing_report"}
                    \cup (IF failed_records # <<>> THEN {"failed_records"} ELSE {})
    /\ report' = save_summary_report
    /\ failed_records' = <<>>
    /\ pc' = "summary"
    /\ UNCHANGED <<file_exists, line_number, lines_read, schemas,
                   processed_count, failed_count, last_id, exit_status>>
    /\ UNCHANGED funcVars
    /\ UNCHANGED diffVars

\* save_results, save_summary_report included.
SaveResults ==
    /\ pc = "save"
    /\ outputs' = outputs \cup {"unique_schemas", "processing_report"}
                    \cup (IF failed_records # <<>> THEN {"failed_records"} ELSE {})
    /\ report' = save_summary_report
    /\ pc' = "summary"
    /\ UNCHANGED <<file_exists, line_number, lines_read, schemas,
                   processed_count, failed_count, failed_records, last_id,
                   exit_status>>
    /\ UNCHANGED funcVars
    /\ UNCHANGED diffVars

\* print_summary and the rest of main: the success rate divides by
\* processed_count + failed_count.
PrintSummary ==
    /\ pc = "summary"
    /\ pc' = "exit"
    /\ exit_status' = IF processed_count + failed_count = 0 THEN "1" ELSE "0"
    /\ UNCHANGED <<file_exists, line_number, lines_read, schemas,
                   processed_count, failed_count, failed_records, last_id,
                   outputs, report>>
    /\ UNCHANGED funcVars
    /\ UNCHANGED diffVars

Next ==
    \/ OpenLog
    \/ LogNotFound
    \/ \E line \in Lines : ProcessLine(line)
    \/ EndOfInput
    \/ SaveResults
    \/ PrintSummary

Spec == Init /\ [][Next]_vars

-----------------------------------------------------------------------------
(* Properties of the extract command.                                      *)

\* Two JSON values have the same structural shape: the same kind at every
\* position, lists of the same length, objects with the same key set (in any
\* order).
RECURSIVE SameShape(_, _)
SameShape(x, y) ==
    /\ x.k = y.k
    /\ x.k = "list" =>
          /\ Len(x.elems) = Len(y.elems)
          /\ \A i \in 1..Len(x.elems) : SameShape(x.elems[i], y.elems[i])
    /\ x.k = "dict" =>
          /\ KeySet(x.items) = KeySet(y.items)
          /\ \A key \in KeySet(x.items) :
                SameShape(DictGet(x.items, key), DictGet(y.items, key))

\* Two JSON values have structurally equal schemas under the inference
\* policy: as SameShape, except that a non-empty list is described by its
\* first element alone.
RECURSIVE SameInferred(_, _)
SameInferred(x, y) ==
    /\ x.k = y.k
    /\ x.k = "list" =>
          /\ (x.elems = <<>>) = (y.elems = <<>>)
          /\ x.elems # <<>> => SameInferred(x.elems[1], y.elems[1])
    /\ x.k = "dict" =>
          /\ KeySet(x.items) = KeySet(y.items)
          /\ \A key \in KeySet(x.items) :
                SameInferred(DictGet(x.items, key), DictGet(y.items, key))

\* The line numbers read so far that hold a record / fail to parse.
RecordLines == {i \in 1..Len(lines_read) : lines_read[i].kind = "json"}
InvalidLines == {i \in 1..Len(lines_read) : lines_read[i].kind = "invalid"}
SchemaOfLine(i) == get_json_schema(lines_read[i].value, RootPath)

\* The set S of line numbers as an increasing sequence.
RECURSIVE Ascending(_)
Ascending(S) ==
    IF S = {} THEN <<>>
    ELSE LET m == CHOOSE m \in S : \A x \in S : m <= x
         IN  <<m>> \o Ascending(S \ {m})

\* The lines read so far whose record has a schema structurally equal to
\* that of the record of line n.
MatchedLines(n) ==
    {j \in RecordLines : SameInferred(lines_read[j].value, lines_read[n].value)}

\* Entry i stores the schema of the record of the line it was first seen at.
StoresFirstSeen(i) ==
    /\ schemas[i][2].first_seen \in RecordLines
    /\ schemas[i][2].schema = SchemaOfLine(schemas[i][2].first_seen)

\* The records whose schema no earlier record had.
NovelLines ==
    {i \in RecordLines :
        \A j \in RecordLines :
            j < i => ~SameInferred(lines_read[j].value, lines_read[i].value)}

\* C1. Dedup correctness: when all the records read so far (n >= 1 of them)
\* have pairwise the same shape, whatever their key order, the registry
\* holds exactly one entry and its count is n.
C1_DedupOneEntry ==
    (/\ RecordLines # {}
     /\ \A i, j \in RecordLines :
           SameShape(lines_read[i].value, lines_read[j].value))
    => /\ Len(schemas) = 1
       /\ schemas[1][2].count = Cardinality(RecordLines)

C1_Witness ==
    /\ Cardinality(RecordLines) >= 3
    /\ \A i, j \in RecordLines :
          SameShape(lines_read[i].value, lines_read[j].value)
    /\ \E i, j \in RecordLines :
          DictKeys(lines_read[i].value.items) # DictKeys(lines_read[j].value.items)
    /\ Len(schemas) = 1
    /\ schemas[1][2].count = Cardinality(RecordLines)

C3_Counts ==
    /\ processed_count = Cardinality(RecordLines)
    /\ failed_count = Cardinality(InvalidLines)
    /\ [i \in 1..Len(failed_records) |->
            <<failed_records[i].line_number, failed_records[i].content>>]
       = [i \in 1..Cardinality(InvalidLines) |->
            <<Ascending(InvalidLines)[i],
              lines_read[Ascending(InvalidLines)[i]].raw>>]

C3_InvalidStep ==
    (/\ line_number' = line_number + 1
     /\ lines_read'[line_number'].kind = "invalid")
    => /\ Len(failed_records') = Len(failed_records) + 1
       /\ SubSeq(failed_records', 1, Len(failed_records)) = failed_records
       /\ failed_records'[Len(failed_records')].line_number = line_number'
       /\ failed_records'[Len(failed_records')].content
            = lines_read'[line_number'].raw
       /\ failed_count' = failed_count + 1
       /\ schemas' = schemas
       /\ processed_count' = processed_count
       /\ pc' = "streaming"

\* C3. Partial-failure tolerance: a line that fails to parse appends exactly
\* one failed record with its line number and content, leaves the registry
\* and processed_count alone and keeps the loop running; at every point, the
\* end of input included, processed_count is the number of valid lines read,
\* failed_count the number of invalid ones and failed_records lists exactly
\* the invalid lines in order.
C3_PartialFailure == [](C3_Counts) /\ [][C3_InvalidStep]_vars

C3_Witness ==
    /\ pc = "exit"
    /\ exit_status = "0"
    /\ failed_count = 1
    /\ processed_count >= 2
    /\ \E i \in InvalidLines :
          /\ \E j \in RecordLines : j < i
          /\ \E j \in RecordLines : j > i

C4_AddStep ==
    (/\ line_number' = line_number + 1
     /\ lines_read'[line_number'].kind = "json")
    => LET schema == get_json_schema(lines_read'[line_number'].value, RootPath)
           line == line_number'
           M == {i \in 1..Len(schemas) :
                    /\ StoresFirstSeen(i)
                    /\ SameInferred(lines_read[schemas[i][2].first_seen].value,
                                    lines_read'[line].value)}
       IN  IF M # {}
           THEN LET m == CHOOSE m \in M : \A x \in M : m <= x
                IN  /\ Len(schemas') = Len(schemas)
                    /\ schemas'[m][2].count = schemas[m][2].count + 1
                    /\ schemas'[m][2].sample_lines
                         = Append(schemas[m][2].sample_lines, line)
                    /\ last_id' = schemas[m][1]
           ELSE /\ Len(schemas') = Len(schemas) + 1
                /\ SubSeq(schemas', 1, Len(schemas)) = schemas
                /\ \A i \in 1..Len(schemas) :
                      schemas[i][1] # schemas'[Len(schemas')][1]
                /\ schemas'[Len(schemas')][2]
                     = [schema |-> schema, count |-> 1,
                        sample_lines |-> <<line>>, first_seen |-> line]
                /\ last_id' = schemas'[Len(schemas')][1]

\* C4. Registry add contract: a call add_schema(schema, line) whose schema
\* is structurally equal to some stored schema increments the count of the first such entry in
\* insertion order, appends the line to its samples and returns its id, and
\* adds no entry; otherwise it appends exactly one entry with an id no entry
\* has, count 1, samples [line] and first_seen line, and returns that id.
C4_AddContract == [][C4_AddStep]_vars

C4_Witness ==
    /\ Len(schemas) = 2
    /\ schemas[1][2].count >= 2
    /\ schemas[2][2].count >= 2
    /\ last_id = schemas[2][1]
    /\ Len(schemas[2][2].sample_lines) >= 2

C5_Ids ==
    LET novel == Ascending(NovelLines)
    IN  /\ Len(schemas) = Len(novel)
        /\ \A i \in 1..Len(schemas) :
              /\ schemas[i][1] = "schema_" \o ToString(i)
              /\ schemas[i][2].first_seen = novel[i]
              /\ schemas[i][2].schema = SchemaOfLine(novel[i])

C5_Stable ==
    /\ Len(schemas') >= Len(schemas)
    /\ \A i \in 1..Len(schemas) :
          /\ schemas'[i][1] = schemas[i][1]
          /\ schemas'[i][2].schema = schemas[i][2].schema

\* C5. Identifier stability: the ids in the registry are schema_1 .. schema_k
\* in insertion order, k being the number of distinct schemas among the
\* records read so far; entry i was created by the i-th record whose schema
\* no earlier record had; and no step removes an entry, changes its id or
\* changes the schema its id denotes.
C5_IdentifierStability == [](C5_Ids) /\ [][C5_Stable]_vars

C5_Witness ==
    /\ Len(schemas) = 2
    /\ schemas[1][1] = "schema_1"
    /\ schemas[2][1] = "schema_2"
    /\ schemas[1][2].count >= 2
    /\ schemas[2][2].first_seen < schemas[1][2].sample_lines[2]
    /\ pc = "exit"

C14_Frozen ==
    pc \in {"save", "summary", "exit"}
    => /\ schemas' = schemas
       /\ failed_records' = failed_records
       /\ processed_count' = processed_count
       /\ failed_count' = failed_count
       /\ lines_read' = lines_read

C14_WrittenAfterEnd ==
    outputs' # outputs => pc = "save" /\ report' = save_summary_report

C14_ReportsFromFinal ==
    outputs # {}
    => /\ pc \in {"summary", "exit"}
       /\ report = save_summary_report

\* C14. Finalized state: once the end of input is reached no later step
\* (save_results with save_summary_report, print_summary) changes the
\* registry, the failure log or the two counters, and every report is
\* written after streaming has ended, from the final state, never while
\* lines are still being read.
C14_Finalized ==
    /\ [](C14_ReportsFromFinal)
    /\ [][C14_Frozen /\ C14_WrittenAfterEnd]_vars

C14_Witness ==
    /\ pc = "exit"
    /\ outputs = {"unique_schemas", "failed_records", "processing_report"}
    /\ Len(schemas) >= 2
    /\ Len(failed_records) >= 1
    /\ report.processed = processed_count
    /\ report.failed = failed_count
    /\ Len(report.schema_summary) = Len(schemas)

\* C15. SourceNotFound is fatal before streaming: when the log file does
\* not exist no line is ever read, the registry and the failure log stay
\* empty, both counters stay 0, no file is written, and the command goes
\* from the existence check straight to its exit, with status 1.
C15_SourceNotFound ==
    ~file_exists
    => /\ lines_read = <<>>
       /\ line_number = 0
       /\ schemas = <<>>
       /\ failed_records = <<>>
       /\ processed_count = 0
       /\ failed_count = 0
       /\ outputs = {}
       /\ pc \in {"open", "exit"}
       /\ pc = "exit" => exit_status = "1"

C15_Witness ==
    /\ ~file_exists
    /\ pc = "exit"
    /\ exit_status = "1"
    /\ outputs = {}

C18_BlankStep ==
    (/\ Len(lines_read') = Len(lines_read) + 1
     /\ lines_read'[Len(lines_read')].kind = "blank")
    => /\ line_number' = line_number + 1
       /\ processed_count' = processed_count
       /\ failed_count' = failed_count
       /\ schemas' = schemas
       /\ failed_records' = failed_records

C18_PhysicalNumbers ==
    /\ line_number = Len(lines_read)
    /\ \A i \in 1..Len(failed_records) :
          LET n == failed_records[i].line_number
          IN  /\ n \in InvalidLines
              /\ failed_records[i].content = lines_read[n].raw
    /\ \A i \in 1..Len(schemas) :
          /\ StoresFirstSeen(i)
          /\ \A j \in 1..Len(schemas[i][2].sample_lines) :
                LET n == schemas[i][2].sample_lines[j]
                IN  /\ n \in RecordLines
                    /\ SameInferred(lines_read[n].value,
                                    lines_read[schemas[i][2].first_seen].value)

\* C18. Blank lines are skipped without affecting counters: a line that is
\* empty once stripped changes neither processed_count, failed_count, the
\* registry nor the failure log, while line_number still advances; so the
\* line numbers stored with later records and failures are positions in
\* the file, blank lines counted.
C18_BlankLines == [](C18_PhysicalNumbers) /\ [][C18_BlankStep]_vars

C18_Witness ==
    /\ Len(lines_read) >= 4
    /\ lines_read[1].kind = "blank"
    /\ lines_read[3].kind = "blank"
    /\ Len(schemas) >= 1
    /\ schemas[1][2].first_seen = 2
    /\ Len(failed_records) >= 1
    /\ failed_records[1].line_number = 4
    /\ processed_count + failed_count < line_number

\* The sum of count over the first n entries of the registry.
RECURSIVE SumCounts(_, _)
SumCounts(reg, n) ==
    IF n = 0 THEN 0 ELSE reg[n][2].count + SumCounts(reg, n - 1)

\* C25. Counter conservation: after every line the counts of the registry
\* entries add up to processed_count, failed_count is the length of
\* failed_records, the registry has at most processed_count entries, and
\* processed_count + failed_count is the number of non-blank lines read.
C25_Conservation ==
    /\ SumCounts(schemas, Len(schemas)) = processed_count
    /\ failed_count = Len(failed_records)
    /\ Len(schemas) <= processed_count
    /\ processed_count + failed_count
         = Cardinality({i \in 1..Len(lines_read) : lines_read[i].kind # "blank"})

C25_Witness ==
    /\ Len(lines_read) = 6
    /\ \E i \in 1..Len(lines_read) : lines_read[i].kind = "blank"
    /\ failed_count = 2
    /\ processed_count = 3
    /\ Len(schemas) = 2
    /\ SumCounts(schemas, Len(schemas)) = 3

\* C28. Extract succeeds on any existing input: whenever the input file
\* exists, also when it holds no non-blank line, the command runs
\* process_log_file, save_results and print_summary to the end and exits
\* with status 0.
C28_ExtractSucceeds ==
    (file_exists /\ pc = "exit")
    => /\ exit_status = "0"
       /\ {"unique_schemas", "processing_report"} \subseteq outputs

\* What the command does: it exits 0 exactly when at least one line was
\* processed or failed; the files are written either way.
C28_NonEmptyInput ==
    (file_exists /\ pc = "exit")
    => /\ exit_status = "0" <=> processed_count + failed_count > 0
       /\ {"unique_schemas", "processing_report"} \subseteq outputs

\* C30. First-seen and sample ordering: for every registry entry,
\* first_seen is the first element of sample_lines and the smallest line
\* matched to the entry, sample_lines is strictly increasing, and the
\* entries are in strictly increasing order of first_seen.
C30_Ordering ==
    /\ \A i \in 1..Len(schemas) :
          LET e == schemas[i][2]
          IN  /\ e.sample_lines # <<>>
              /\ e.first_seen = e.sample_lines[1]
              /\ \A j \in 1..(Len(e.sample_lines) - 1) :
                    e.sample_lines[j] < e.sample_lines[j + 1]
              /\ e.first_seen \in RecordLines
              /\ \A n \in MatchedLines(e.first_seen) : e.first_seen <= n
    /\ \A i \in 1..(Len(schemas) - 1) :
          schemas[i][2].first_seen < schemas[i + 1][2].first_seen

C30_Witness ==
    /\ Len(schemas) = 2
    /\ Len(schemas[1][2].sample_lines) >= 2
    /\ Len(schemas[2][2].sample_lines) >= 2
    /\ schemas[1][2].first_seen > 1
    /\ schemas[1][2].first_seen < schemas[2][2].first_seen
    /\ schemas[2][2].first_seen < schemas[1][2].sample_lines[2]
    /\ schemas[1][2].sample_lines[2] < schemas[2][2].sample_lines[2]

-----------------------------------------------------------------------------
(* Function-level runs: two JSON values are inferred and their schemas     *)
(* compared, as diffschemas does with the catalog entries extract wrote.   *)

\* Largest number of nodes (containers and leaves) of a generated value:
\* MaxNodes where a value is paired with its same-shape variants,
\* MaxPairNodes where every value is paired with every value.
MaxNodes == 4
MaxPairNodes == 3

Keys == {<<"a">>, <<"b">>}
InnerLeaves == {JInt("1"), JStr("x")}

DistinctKeys(d) == \A i, j \in 1..Len(d) : i # j => d[i][1] # d[j][1]

RECURSIVE ValuesOfSize(_), ElemSeqs(_), ItemSeqs(_)
\* Non-empty lists and dicts over Keys and InnerLeaves with exactly n nodes.
ValuesOfSize(n) ==
    IF n = 1 THEN InnerLeaves
    ELSE {JList(e) : e \in ElemSeqs(n - 1)}
            \cup {JDict(d) : d \in {i \in ItemSeqs(n - 1) : DistinctKeys(i)}}
\* Sequences of values with n nodes in total.
ElemSeqs(n) ==
    IF n = 0 THEN {<<>>}
    ELSE UNION {{<<h>> \o t : h \in ValuesOfSize(j), t \in ElemSeqs(n - j)} :
                    j \in 1..n}
\* Sequences of <<key, value>> with n nodes in total.
ItemSeqs(n) ==
    IF n = 0 THEN {<<>>}
    ELSE UNION {{<< <<key, h>> >> \o t :
                        key \in Keys, h \in ValuesOfSize(j), t \in ItemSeqs(n - j)} :
                    j \in 1..n}

Samples ==
    {JNull, JBool("true"), JFloat("1.5"), JList(<<>>), JDict(<<>>),
     RecAB, RecBA,
     \* {"a": 1, "b": {"c": true}}
     JDict(<< <<(<<"a">>), JInt("1")>>,
              <<(<<"b">>), JDict(<< <<(<<"c">>), JBool("true")>> >>)>> >>),
     \* {"a": []}, {"a": {}}, [[]]
     JDict(<< <<(<<"a">>), JList(<<>>)>> >>),
     JDict(<< <<(<<"a">>), JDict(<<>>)>> >>),
     JList(<<JList(<<>>)>>),
     \* {"a.b": 1}, {"a": 1, "a.b": "x"}, {"a": {"b": 1}, "a.b": 1}
     JDict(<< <<(<<"a", ".", "b">>), JInt("1")>> >>),
     JDict(<< <<(<<"a">>), JInt("1")>>, <<(<<"a", ".", "b">>), JStr("x")>> >>),
     JDict(<< <<(<<"a">>), JDict(<< <<(<<"b">>), JInt("1")>> >>)>>,
              <<(<<"a", ".", "b">>), JInt("1")>> >>),
     \* [1, 1, 1, 1, 1, "x"]: longer than the inferencer samples
     JList(<<JInt("1"), JInt("1"), JInt("1"), JInt("1"), JInt("1"), JStr("x")>>),
     \* {"x": [1]}, {"x": [{"a": 1}]}, {"x": [{"a": "x"}]}
     JDict(<< <<(<<"x">>), JList(<<JInt("1")>>)>> >>),
     JDict(<< <<(<<"x">>),
                JList(<<JDict(<< <<(<<"a">>), JInt("1")>> >>)>>)>> >>),
     JDict(<< <<(<<"x">>),
                JList(<<JDict(<< <<(<<"a">>), JStr("x")>> >>)>>)>> >>)}

Universe(n) == UNION {ValuesOfSize(k) : k \in 1..n}
PairUniverse == Universe(MaxPairNodes) \cup Samples
ShapeUniverse == Universe(MaxNodes) \cup Samples

\* The values that differ from v only in the order of the keys of its
\* objects, at any depth.
RECURSIVE KeyOrders(_)
KeyOrders(v) ==
    IF v.k = "list"
    THEN {JList(e) : e \in {c \in [1..Len(v.elems) ->
                                    UNION {KeyOrders(v.elems[i]) : i \in 1..Len(v.elems)}] :
                                \A i \in 1..Len(v.elems) : c[i] \in KeyOrders(v.elems[i])}}
    ELSE IF v.k = "dict"
    THEN {JDict([i \in 1..Len(v.items) |-> <<v.items[o[i]][1], c[o[i]]>>]) :
            o \in Permutations(1..Len(v.items)),
            c \in {c \in [1..Len(v.items) ->
                            UNION {KeyOrders(v.items[i][2]) : i \in 1..Len(v.items)}] :
                        \A i \in 1..Len(v.items) : c[i] \in KeyOrders(v.items[i][2])}}
    ELSE {v}

\* v with other numbers and strings at its leaves.
RECURSIVE OtherPayload(_)
OtherPayload(v) ==
    CASE v.k = "list" -> JList([i \in 1..Len(v.elems) |-> OtherPayload(v.elems[i])])
      [] v.k = "dict" ->
            JDict([i \in 1..Len(v.items) |->
                        <<v.items[i][1], OtherPayload(v.items[i][2])>>])
      [] v.k = "int" -> JInt(IF v.v = "1" THEN "2" ELSE "1")
      [] v.k = "str" -> JStr(IF v.v = "x" THEN "y" ELSE "x")
      [] OTHER -> v

ShapeVariants(v) == KeyOrders(v) \cup KeyOrders(OtherPayload(v))

InitFunc ==
    /\ pc = "off"
    /\ file_exists = FALSE
    /\ line_number = 0
    /\ lines_read = <<>>
    /\ schemas = <<>>
    /\ processed_count = 0
    /\ failed_count = 0
    /\ failed_records = <<>>
    /\ last_id = ""
    /\ outputs = {}
    /\ report = NoReport
    /\ exit_status = "running"
    /\ va \in PairUniverse
    /\ vb \in PairUniverse
    /\ sa = NoSchema
    /\ sb = NoSchema
    /\ diff = NoDiff
    /\ fpc = "input"
    /\ DiffIdle

\* As InitFunc, the second value being a same-shape variant of the first:
\* two records of one log that differ in key order and leaf values.
InitShape ==
    /\ pc = "off"
    /\ file_exists = FALSE
    /\ line_number = 0
    /\ lines_read = <<>>
    /\ schemas = <<>>
    /\ processed_count = 0
    /\ failed_count = 0
    /\ failed_records = <<>>
    /\ last_id = ""
    /\ outputs = {}
    /\ report = NoReport
    /\ exit_status = "running"
    /\ va \in ShapeUniverse
    /\ vb \in ShapeVariants(va)
    /\ sa = NoSchema
    /\ sb = NoSchema
    /\ diff = NoDiff
    /\ fpc = "input"
    /\ DiffIdle

\* get_json_schema(record) on both values, as process_log_file calls it.
Infer ==
    /\ fpc = "input"
    /\ sa' = get_json_schema(va, RootPath)
    /\ sb' = get_json_schema(vb, RootPath)
    /\ fpc' = "inferred"
    /\ UNCHANGED <<va, vb, diff>>
    /\ UNCHANGED extractVars
    /\ UNCHANGED diffVars

\* compare_schemas(sa, sb), as analyze_all_schemas calls it.
Compare ==
    /\ fpc = "inferred"
    /\ \E order \in IterOrders(CommonPaths(sa, sb)) :
          diff' = compare_schemas(sa, sb, order)
    /\ fpc' = "compared"
    /\ UNCHANGED <<va, vb, sa, sb>>
    /\ UNCHANGED extractVars
    /\ UNCHANGED diffVars

NextFunc == Infer \/ Compare

SpecFunc == InitFunc /\ [][NextFunc]_vars

SpecShape == InitShape /\ [][NextFunc]_vars

-----------------------------------------------------------------------------
(* The diffschemas command: main() of schemadiffertiater.py.               *)

\* Longest log from which a catalog given to diffschemas was extracted.
MaxCatalogRecords == 3

\* {"a": "x", "b": 1}, {"a": [1]}, {"a": ["x"]}
RecXB == JDict(<< <<(<<"a">>), JStr("x")>>, <<(<<"b">>), JInt("1")>> >>)
RecList1 == JDict(<< <<(<<"a">>), JList(<<JInt("1")>>)>> >>)
RecListX == JDict(<< <<(<<"a">>), JList(<<JStr("x")>>)>> >>)
\* {"a": 1, "b": {"a": true}}
RecNested == JDict(<< <<(<<"a">>), JInt("1")>>,
                      <<(<<"b">>), JDict(<< <<(<<"a">>), JBool("true")>> >>)>> >>)

CatalogRecords == {RecAB, RecBA, RecA, RecXB, RecList1, RecListX}

\* self.schemas after process_log_file has read the first n of the records
\* recs, one per line: what save_results dumps as the catalog. json.dump
\* followed by json.load keeps the keys of every dict in their order and
\* every str, int and list as it is.
RECURSIVE RegistryOf(_, _)
RegistryOf(recs, n) ==
    IF n = 0 THEN <<>>
    ELSE add_schema(RegistryOf(recs, n - 1),
                    get_json_schema(recs[n], RootPath), n).reg

RecordSeqs == UNION {[1..n -> CatalogRecords] : n \in 0..MaxCatalogRecords}

\* A schema with the names in dropped taken off every 'required' list: a
\* catalog that was edited, or written by another tool, need not list
\* every property as required.
RECURSIVE DropRequired(_, _)
DropRequired(schema, dropped) ==
    [f \in DOMAIN schema |->
        CASE f = "required" ->
                SelectSeq(schema[f], LAMBDA name : name \notin dropped)
          [] f = "properties" ->
                [i \in 1..Len(schema[f]) |->
                    <<schema[f][i][1], DropRequired(schema[f][i][2], dropped)>>]
          [] f = "items" -> DropRequired(schema[f], dropped)
          [] OTHER -> schema[f]]

\* {"a": {"b": 1}, "a.b": "x"}
RecDotted == JDict(<< <<(<<"a">>), JDict(<< <<(<<"b">>), JInt("1")>> >>)>>,
                      <<(<<"a", ".", "b">>), JStr("x")>> >>)

EditedSchemas ==
    {DropRequired(get_json_schema(v, RootPath), dropped) :
        v \in {RecAB, RecXB, RecNested, RecDotted}, dropped \in SUBSET Keys}

EditedCatalogs ==
    {<< <<"schema_1", [schema |-> s1, count |-> 1,
                       sample_lines |-> <<1>>, first_seen |-> 1]>>,
        <<"schema_2", [schema |-> s2, count |-> 1,
                       sample_lines |-> <<2>>, first_seen |-> 2]>> >> :
        s1 \in EditedSchemas, s2 \in EditedSchemas}

\* The file named on the command line: absent, not JSON, a catalog that
\* extract wrote from the records of a log, or an edited catalog.
CatalogFiles ==
    {[kind |-> "missing"], [kind |-> "invalid"]}
    \cup {[kind |-> "extract", records |-> r,
           value |-> RegistryOf(r, Len(r))] : r \in RecordSeqs}
    \cup {[kind |-> "edited", value |-> c] : c \in EditedCatalogs}

Parses(file) == file.kind \in {"extract", "edited"}

InitDiff ==
    /\ pc = "off"
    /\ file_exists = FALSE
    /\ line_number = 0
    /\ lines_read = <<>>
    /\ schemas = <<>>
    /\ processed_count = 0
    /\ failed_count = 0
    /\ failed_records = <<>>
    /\ last_id = ""
    /\ outputs = {}
    /\ report = NoReport
    /\ exit_status = "running"
    /\ FuncIdle
    /\ dpc = "load"
    /\ catalog_file \in CatalogFiles
    /\ AnalyzerInit

\* load_schemas raises FileNotFoundError; main prints it and exits 1.
CatalogNotFound ==
    /\ dpc = "load"
    /\ catalog_file.kind = "missing"
    /\ dpc' = "exit"
    /\ diff_exit_status' = "1"
    /\ UNCHANGED <<catalog_file, analyzer_schemas, baseline_schema_id,
                   baseline_schema, differences, diff_outputs, text_report,
                   json_report>>
    /\ UNCHANGED <<extractVars, funcVars>>

\* json.load raises before self.schemas is assigned; main exits 1.
CatalogInvalid ==
    /\ dpc = "load"
    /\ catalog_file.kind = "invalid"
    /\ dpc' = "exit"
    /\ diff_exit_status' = "1"
    /\ UNCHANGED <<catalog_file, analyzer_schemas, baseline_schema_id,
                   baseline_schema, differences, diff_outputs, text_report,
                   json_report>>
    /\ UNCHANGED <<extractVars, funcVars>>

\* EmptyCatalog with load_schemas returning on an empty catalog: main has
\* nothing to compare and ends normally.
EmptyCatalogReturns ==
    /\ dpc = "load"
    /\ Parses(catalog_file)
    /\ catalog_file.value = <<>>
    /\ analyzer_schemas' = catalog_file.value
    /\ dpc' = "exit"
    /\ diff_exit_status' = "0"
    /\ UNCHANGED <<catalog_file, baseline_schema_id, baseline_schema,
                   differences, diff_outputs, text_report, json_report>>
    /\ UNCHANGED <<extractVars, funcVars>>

\* load_schemas on a catalog without entries: "if not self.schemas" raises
\* ValueError; main prints it and exits 1.
EmptyCatalog ==
    /\ dpc = "load"
    /\ Parses(catalog_file)
    /\ catalog_file.value = <<>>
    /\ analyzer_schemas' = catalog_file.value
    /\ dpc' = "exit"
    /\ diff_exit_status' = "1"
    /\ UNCHANGED <<catalog_file, baseline_schema_id, baseline_schema,
                   differences, diff_outputs, text_report, json_report>>
    /\ UNCHANGED <<extractVars, funcVars>>

\* LoadSchemas taking the last key of the catalog as the baseline.
LoadSchemasLastBaseline ==
    /\ dpc = "load"
    /\ Parses(catalog_file)
    /\ catalog_file.value # <<>>
    /\ analyzer_schemas' = catalog_file.value
    /\ baseline_schema_id' = catalog_file.value[Len(catalog_file.value)][1]
    /\ baseline_schema' = DictGet(catalog_file.value, baseline_schema_id').schema
    /\ dpc' = "analyze"
    /\ UNCHANGED <<catalog_file, differences, diff_outputs, text_report,
                   json_report, diff_exit_status>>
    /\ UNCHANGED <<extractVars, funcVars>>

\* load_schemas on a catalog with entries: the first key is the baseline.
LoadSchemas ==
    /\ dpc = "load"
    /\ Parses(catalog_file)
    /\ catalog_file.value # <<>>
    /\ analyzer_schemas' = catalog_file.value
    /\ baseline_schema_id' = DictKeys(catalog_file.value)[1]
    /\ baseline_schema' = DictGet(catalog_file.value, baseline_schema_id').schema
    /\ dpc' = "analyze"
    /\ UNCHANGED <<catalog_file, differences, diff_outputs, text_report,
                   json_report, diff_exit_status>>
    /\ UNCHANGED <<extractVars, funcVars>>

\* One iteration of the loop of analyze_all_schemas: the entries are
\* visited in the order of self.schemas, one per iteration.
AnalyzeEntry ==
    /\ dpc = "analyze"
    /\ Len(differences) < Len(analyzer_schemas)
    /\ LET schema_id == analyzer_schemas[Len(differences) + 1][1]
           schema_info == analyzer_schemas[Len(differences) + 1][2]
       IN  IF schema_id = baseline_schema_id
           THEN differences' = DictSet(differences, schema_id,
                                   [is_baseline |-> TRUE,
                                    schema_info |-> schema_info])
           ELSE \E order \in IterOrders(CommonPaths(baseline_schema,
                                                     schema_info.schema)) :
                   differences' = DictSet(differences, schema_id,
                                      [is_baseline |-> FALSE,
                                       schema_info |-> schema_info,
                                       differences |->
                                          compare_schemas(baseline_schema,
                                                          schema_info.schema,
                                                          order)])
    /\ UNCHANGED <<dpc, catalog_file, analyzer_schemas, baseline_schema_id,
                   baseline_schema, diff_outputs, text_report, json_report,
                   diff_exit_status>>
    /\ UNCHANGED <<extractVars, funcVars>>

\* The loop of analyze_all_schemas is over; print_summary prints the
\* comparisons and changes nothing.
DiffPrintSummary ==
    /\ dpc = "analyze"
    /\ Len(differences) = Len(analyzer_schemas)
    /\ dpc' = "report"
    /\ UNCHANGED <<catalog_file, analyzer_schemas, baseline_schema_id,
                   baseline_schema, differences, diff_outputs, text_report,
                   json_report, diff_exit_status>>
    /\ UNCHANGED <<extractVars, funcVars>>

\* The entries of self.differences that are not the baseline, in order.
Comparisons == SelectSeq(differences, LAMBDA e : ~e[2].is_baseline)

\* "if not any([missing_fields, additional_fields, type_differences])"
NoDifferences(d) ==
    /\ d.missing_fields = <<>>
    /\ d.additional_fields = <<>>
    /\ d.type_differences = <<>>

\* generate_detailed_report: the baseline block and one block per
\* comparison, closed by IDENTICAL TO BASELINE when nothing differs.
GenerateDetailedReport ==
    /\ dpc = "report"
    /\ text_report' =
          [baseline |-> baseline_schema_id,
           total_fields |-> Cardinality(get_all_paths(baseline_schema, <<>>)),
           comparisons |->
              [i \in 1..Len(Comparisons) |->
                  [schema_id |-> Comparisons[i][1],
                   record_count |-> Comparisons[i][2].schema_info.count,
                   missing_fields |-> Comparisons[i][2].differences.missing_fields,
                   additional_fields |->
                      Comparisons[i][2].differences.additional_fields,
                   type_differences |->
                      Comparisons[i][2].differences.type_differences,
                   identical |-> NoDifferences(Comparisons[i][2].differences)]]]
    /\ diff_outputs' = diff_outputs \cup {"schema_differences_report"}
    /\ dpc' = "json"
    /\ UNCHANGED <<catalog_file, analyzer_schemas, baseline_schema_id,
                   baseline_schema, differences, json_report,
                   diff_exit_status>>
    /\ UNCHANGED <<extractVars, funcVars>>

\* generate_json_report, and the end of main.
GenerateJsonReport ==
    /\ dpc = "json"
    /\ json_report' =
          [metadata |-> [baseline_schema_id |-> baseline_schema_id,
                         total_schemas |-> Len(analyzer_schemas)],
           baseline_schema |->
              [schema_id |-> baseline_schema_id,
               record_count |-> DictGet(analyzer_schemas, baseline_schema_id).count,
               sample_lines |->
                  DictGet(analyzer_schemas, baseline_schema_id).sample_lines,
               total_fields |-> Cardinality(get_all_paths(baseline_schema, <<>>))],
           schema_comparisons |->
              [i \in 1..Len(Comparisons) |->
                  <<Comparisons[i][1],
                    [record_count |-> Comparisons[i][2].schema_info.count,
                     first_seen_line |-> Comparisons[i][2].schema_info.first_seen,
                     sample_lines |-> Comparisons[i][2].schema_info.sample_lines,
                     differences |-> Comparisons[i][2].differences]>>]]
    /\ diff_outputs' = diff_outputs \cup {"schema_differences"}
    /\ dpc' = "exit"
    /\ diff_exit_status' = "0"
    /\ UNCHANGED <<catalog_file, analyzer_schemas, baseline_schema_id,
                   baseline_schema, differences, text_report>>
    /\ UNCHANGED <<extractVars, funcVars>>

NextDiff ==
    \/ CatalogNotFound
    \/ CatalogInvalid
    \/ EmptyCatalog
    \/ LoadSchemas
    \/ AnalyzeEntry
    \/ DiffPrintSummary
    \/ GenerateDetailedReport
    \/ GenerateJsonReport

SpecDiff == InitDiff /\ [][NextDiff]_vars

-----------------------------------------------------------------------------
(* Properties of inference, normalization and comparison.                  *)

Range(q) == {q[i] : i \in 1..Len(q)}

\* C2. Order-independence: two values of the same shape, their keys in any
\* order at any depth, infer schemas that schemas_equal accepts, and adding
\* both to an empty registry leaves one entry counted twice; for
\* {"a":1,"b":"x"} then {"b":"y","a":2} that entry describes an object with
\* integer a and string b, both required.
C2_OrderIndependence ==
    (fpc # "input" /\ SameShape(va, vb))
    => /\ schemas_equal(sa, sb)
       /\ LET first == add_schema(<<>>, sa, 1)
              second == add_schema(first.reg, sb, 2)
          IN  /\ Len(second.reg) = 1
              /\ second.reg[1][2].count = 2
              /\ second.ret = first.ret
              /\ (va = RecAB /\ vb = RecBA) =>
                    PyEq(normalize_schema_for_comparison(second.reg[1][2].schema),
                         [type |-> "object",
                          properties |-> << <<(<<"a">>), [type |-> "integer"]>>,
                                            <<(<<"b">>), [type |-> "string"]>> >>,
                          required |-> << <<"a">>, <<"b">> >>])

C2_Witness ==
    /\ fpc = "inferred"
    /\ SameShape(va, vb)
    /\ va.k = "dict"
    /\ \E key \in KeySet(va.items) :
          /\ DictGet(va.items, key).k = "dict"
          /\ DictKeys(DictGet(va.items, key).items)
                # DictKeys(DictGet(vb.items, key).items)
    /\ sa # sb
    /\ schemas_equal(sa, sb)

IdempotentOn(s) ==
    LET n == normalize_schema_for_comparison(s)
        nn == normalize_schema_for_comparison(n)
    IN  /\ PyEq(nn, n)
        /\ PyEq(normalize_schema_for_comparison(nn), nn)

\* C7. Canonicalizer idempotence: normalizing the normal form of an inferred
\* schema, or the normal form of that, gives an equal schema.
C7_Idempotence == fpc # "input" => IdempotentOn(sa) /\ IdempotentOn(sb)

C7_Witness ==
    /\ fpc = "inferred"
    /\ sa.type = "object"
    /\ sa.required # SortedStrs(sa.required)
    /\ \E i \in 1..Len(sa.properties) : sa.properties[i][2].type = "object"
    /\ IdempotentOn(sa)

\* C8. Diff identity: comparing a schema with itself reports no missing
\* field, no additional field and no type difference.
C8_DiffIdentity ==
    (fpc = "compared" /\ sa = sb)
    => /\ diff.missing_fields = <<>>
       /\ diff.additional_fields = <<>>
       /\ diff.type_differences = <<>>

C8_Witness ==
    /\ fpc = "compared"
    /\ sa = sb
    /\ diff.total_baseline_fields >= 3
    /\ diff.common_fields = diff.total_baseline_fields
    /\ diff.missing_fields = <<>>
    /\ diff.additional_fields = <<>>
    /\ diff.type_differences = <<>>

\* C9. Diff complementarity: the missing fields of compare_schemas(a, b) are
\* the additional fields of compare_schemas(b, a) and the other way round.
C9_Complementarity ==
    fpc = "compared"
    => \A order \in IterOrders(CommonPaths(sb, sa)) :
          LET back == compare_schemas(sb, sa, order)
          IN  /\ diff.missing_fields = back.additional_fields
              /\ diff.additional_fields = back.missing_fields

C9_Witness ==
    /\ fpc = "compared"
    /\ diff.missing_fields # <<>>
    /\ diff.additional_fields # <<>>
    /\ diff.common_fields >= 1
    /\ \A order \in IterOrders(CommonPaths(sb, sa)) :
          diff.missing_fields = compare_schemas(sb, sa, order).additional_fields

\* vb is va with its i-th property, an object, removed.
RemovedObjectField(i) ==
    /\ va.k = "dict"
    /\ vb.k = "dict"
    /\ i \in 1..Len(va.items)
    /\ va.items[i][2].k = "dict"
    /\ vb.items = RemoveAt(va.items, i)

\* C10. Missing/added sets: missing_fields is the baseline's paths minus the
\* candidate's, additional_fields the candidate's minus the baseline's and
\* common_fields counts their intersection; so when the candidate is the
\* baseline without one object-valued field, that field's path and the path
\* of every field below it are reported missing and nothing is reported
\* added ({"a":1,"b":{"c":true}} against {"a":1}: missing b and b.c).
C10_MissingAdded ==
    fpc = "compared"
    => /\ Range(diff.missing_fields)
            = get_all_paths(sa, <<>>) \ get_all_paths(sb, <<>>)
       /\ Range(diff.additional_fields)
            = get_all_paths(sb, <<>>) \ get_all_paths(sa, <<>>)
       /\ diff.common_fields
            = Cardinality(get_all_paths(sa, <<>>) \cap get_all_paths(sb, <<>>))
       /\ va.k = "dict" =>
             \A i \in 1..Len(va.items) :
                RemovedObjectField(i) =>
                   /\ Range(diff.missing_fields)
                        = {sa.properties[i][1]}
                           \cup get_all_paths(sa.properties[i][2],
                                              sa.properties[i][1])
                   /\ diff.additional_fields = <<>>

\* With property names that contain no '.', C10 holds as stated.
PlainKeys(v) ==
    v.k = "dict" =>
        \A i \in 1..Len(v.items) :
            \A j \in 1..Len(v.items[i][1]) : v.items[i][1][j] # "."

C10_PlainKeys == (PlainKeys(va) /\ PlainKeys(vb)) => C10_MissingAdded

\* Every field of a schema under the path string that get_all_paths gives
\* it, found by walking the schema itself: the type of the field's schema,
\* whether its object lists it as required, and whether an array's item
\* schema is crossed on the way to it.
RECURSIVE Fields(_, _, _)
Fields(schema, parent_path, through_array) ==
    IF schema.type = "object"
    THEN UNION {
            LET prop_name == schema.properties[i][1]
                prop_schema == schema.properties[i][2]
                current_path == IF parent_path # <<>>
                                THEN parent_path \o Dot \o prop_name
                                ELSE prop_name
            IN  {[path |-> current_path,
                  type |-> prop_schema.type,
                  required |-> prop_name \in Range(schema.required),
                  through_array |-> through_array]}
                \cup Fields(prop_schema, current_path, through_array)
            : i \in 1..Len(schema.properties)}
    ELSE IF schema.type = "array"
    THEN Fields(schema.items, parent_path \o Brackets, TRUE)
    ELSE {}

\* The positions of the entries of type_differences reported for a path.
EntriesAt(d, path) ==
    {i \in 1..Len(d.type_differences) : d.type_differences[i].path = path}

\* C11. Type difference on object paths: for every path common to baseline
\* and candidate that is reached through object properties only, the diff
\* holds exactly one type difference for the path, carrying the baseline
\* type and the candidate type, when the field's types differ, and no entry
\* for the path when they agree.
C11_ObjectPathTypes ==
    fpc = "compared"
    => LET fa == Fields(sa, <<>>, FALSE)
           fb == Fields(sb, <<>>, FALSE)
       IN  \A x \in fa, y \in fb :
              (x.path = y.path /\ ~x.through_array /\ ~y.through_array)
              => IF x.type # y.type
                 THEN /\ Cardinality(EntriesAt(diff, x.path)) = 1
                      /\ \A i \in EntriesAt(diff, x.path) :
                            diff.type_differences[i]
                              = [path |-> x.path,
                                 baseline_type |-> x.type,
                                 comparison_type |-> y.type]
                 ELSE EntriesAt(diff, x.path) = {}

\* With property names that contain no '.', C11 holds as stated.
C11_PlainKeys == (PlainKeys(va) /\ PlainKeys(vb)) => C11_ObjectPathTypes

\* C12. Type difference across array segments: for every common path that
\* crosses an array's [] segment, the diff resolves the field in both
\* schemas through the item schema and holds a type difference for the path
\* when the two types disagree.
C12_ArraySegmentTypes ==
    fpc = "compared"
    => LET fa == Fields(sa, <<>>, FALSE)
           fb == Fields(sb, <<>>, FALSE)
       IN  \A x \in fa, y \in fb :
              (x.path = y.path /\ x.through_array /\ y.through_array
                 /\ x.type # y.type)
              => \E i \in EntriesAt(diff, x.path) :
                    diff.type_differences[i]
                      = [path |-> x.path,
                         baseline_type |-> x.type,
                         comparison_type |-> y.type]

\* A list of str is in strictly increasing order.
IsSorted(q) == \A i \in 1..(Len(q) - 1) : StrLess(q[i], q[i + 1])

\* C13. Diff determinism: every invocation of compare_schemas on the same
\* two schemas returns the result this one returned, the order of
\* type_differences included, and the paths of missing_fields,
\* additional_fields and type_differences are each in sorted order.
C13_Determinism ==
    fpc = "compared"
    => /\ \A order \in IterOrders(CommonPaths(sa, sb)) :
             compare_schemas(sa, sb, order) = diff
       /\ IsSorted(diff.missing_fields)
       /\ IsSorted(diff.additional_fields)
       /\ IsSorted([i \in 1..Len(diff.type_differences) |->
                        diff.type_differences[i].path])

\* missing_fields and additional_fields are sorted and, up to the order of
\* type_differences, the result is the same on every invocation.
C13_UpToOrder ==
    fpc = "compared"
    => /\ \A order \in IterOrders(CommonPaths(sa, sb)) :
             LET other == compare_schemas(sa, sb, order)
             IN  /\ Range(other.type_differences) = Range(diff.type_differences)
                 /\ [other EXCEPT !.type_differences = <<>>]
                      = [diff EXCEPT !.type_differences = <<>>]
       /\ IsSorted(diff.missing_fields)
       /\ IsSorted(diff.additional_fields)

\* The paths at which a schema holds an array.
RECURSIVE ArrayPaths(_, _)
ArrayPaths(schema, parent_path) ==
    IF schema.type = "object"
    THEN UNION {
            LET prop_name == schema.properties[i][1]
                current_path == IF parent_path # <<>>
                                THEN parent_path \o Dot \o prop_name
                                ELSE prop_name
            IN  ArrayPaths(schema.properties[i][2], current_path)
            : i \in 1..Len(schema.properties)}
    ELSE IF schema.type = "array"
    THEN {parent_path} \cup ArrayPaths(schema.items, parent_path \o Brackets)
    ELSE {}

\* C19. allPaths of arrays: for an array reached at path parent the paths
\* of the schema contain parent[] for the element position, next to every
\* path of the item schema below it; the schema of {"x": [1]} has the
\* paths x and x[].
C19_ArrayElementPath ==
    fpc # "input"
    => /\ \A parent \in ArrayPaths(sa, <<>>) :
             (parent \o Brackets) \in get_all_paths(sa, <<>>)
       /\ va = JDict(<< <<(<<"x">>), JList(<<JInt("1")>>)>> >>) =>
             get_all_paths(sa, <<>>) = {<<"x">>, <<"x", "[", "]">>}

\* What the code does instead: an array contributes the paths of its item
\* schema under parent[] and no path of its own.
C19_ItemPathsOnly ==
    fpc # "input"
    => /\ \A parent \in ArrayPaths(sa, <<>>) :
             (parent \o Brackets) \notin get_all_paths(sa, <<>>)
       /\ get_all_paths(sa, <<>>) = {f.path : f \in Fields(sa, <<>>, FALSE)}

-----------------------------------------------------------------------------
(* Properties of the diffschemas command.                                  *)

\* C16. EmptyCatalog is fatal: when the catalog file parses to a catalog
\* without entries, no baseline is ever chosen (baseline_schema_id and
\* baseline_schema stay unset), nothing is compared, no report is written,
\* and the command goes from load_schemas straight to its exit, with
\* status 1.
C16_EmptyCatalog ==
    (Parses(catalog_file) /\ catalog_file.value = <<>>)
    => /\ baseline_schema_id = NoId
       /\ baseline_schema = None
       /\ differences = <<>>
       /\ diff_outputs = {}
       /\ text_report = NoTextReport
       /\ json_report = NoJsonReport
       /\ dpc \in {"load", "exit"}
       /\ dpc = "exit" => diff_exit_status = "1"

C16_Witness ==
    /\ Parses(catalog_file)
    /\ catalog_file.value = <<>>
    /\ dpc = "exit"
    /\ diff_exit_status = "1"
    /\ baseline_schema_id = NoId
    /\ diff_outputs = {}

\* The results compare_schemas can return for two schemas.
PossibleDiffs(schema1, schema2) ==
    {compare_schemas(schema1, schema2, order) :
        order \in IterOrders(CommonPaths(schema1, schema2))}

\* C17. Baseline selection and coverage: the baseline is the first entry
\* of the catalog in file order; once analyze_all_schemas is over every
\* other entry has exactly one comparison, computed against that baseline,
\* the baseline has none (is_baseline, and absent from schema_comparisons
\* of the JSON report), and total_schemas is the number of catalog
\* entries. For a catalog written by extract the baseline is schema_1, the
\* schema of the first record processed.
C17_BaselineCoverage ==
    (dpc \in {"report", "json", "exit"} /\ diff_exit_status # "1")
    => LET catalog == catalog_file.value
       IN  /\ baseline_schema_id = catalog[1][1]
           /\ baseline_schema = catalog[1][2].schema
           /\ DictKeys(differences) = DictKeys(catalog)
           /\ \A i \in 1..Len(catalog) :
                 LET e == differences[i][2]
                 IN  /\ e.schema_info = catalog[i][2]
                     /\ IF i = 1
                        THEN e.is_baseline /\ "differences" \notin DOMAIN e
                        ELSE /\ ~e.is_baseline
                             /\ e.differences
                                  \in PossibleDiffs(catalog[1][2].schema,
                                                    catalog[i][2].schema)
           /\ "schema_differences" \in diff_outputs =>
                 /\ json_report.metadata.baseline_schema_id = catalog[1][1]
                 /\ json_report.metadata.total_schemas = Len(catalog)
                 /\ DictKeys(json_report.schema_comparisons)
                      = Tail(DictKeys(catalog))
                 /\ \A i \in 1..Len(json_report.schema_comparisons) :
                       json_report.schema_comparisons[i][2].differences
                         = differences[i + 1][2].differences
           /\ catalog_file.kind = "extract" =>
                 /\ baseline_schema_id = "schema_1"
                 /\ baseline_schema
                      = get_json_schema(catalog_file.records[1], RootPath)

C17_Witness ==
    /\ dpc = "exit"
    /\ diff_exit_status = "0"
    /\ catalog_file.kind = "extract"
    /\ Len(catalog_file.value) = 3
    /\ Len(differences) = 3
    /\ differences[1][2].is_baseline
    /\ Len(json_report.schema_comparisons) = 2
    /\ json_report.metadata.total_schemas = 3

\* The fields of a schema under a given path string.
FieldsAt(schema, path) == {f \in Fields(schema, <<>>, FALSE) : f.path = path}

\* An entry of type_differences reports a change of requiredness.
IsRequiredEntry(e) == "difference_type" \in DOMAIN e

PrecedenceIn(schema1, schema2, d) ==
    \A i \in 1..Len(d.type_differences) :
        LET e == d.type_differences[i]
        IN  /\ EntriesAt(d, e.path) = {i}
            /\ IF IsRequiredEntry(e)
               THEN /\ DOMAIN e = {"path", "baseline_required",
                                   "comparison_required", "difference_type"}
                    /\ \E x \in FieldsAt(schema1, e.path),
                          y \in FieldsAt(schema2, e.path) :
                          /\ x.type = y.type
                          /\ x.required # y.required
                          /\ e.baseline_required = x.required
                          /\ e.comparison_required = y.required
               ELSE /\ DOMAIN e = {"path", "baseline_type", "comparison_type"}
                    /\ \E x \in FieldsAt(schema1, e.path),
                          y \in FieldsAt(schema2, e.path) :
                          /\ x.type # y.type
                          /\ e.baseline_type = x.type
                          /\ e.comparison_type = y.type

\* C20. Type/required precedence: type_differences holds at most one entry
\* per path; an entry reports requiredness only for a path whose types
\* agree in the two schemas and whose required flags differ, and a path
\* whose types differ gets a type entry only, also when its required flags
\* differ as well.
C20_Precedence ==
    \A i \in 1..Len(differences) :
        ~differences[i][2].is_baseline
        => PrecedenceIn(baseline_schema,
                        differences[i][2].schema_info.schema,
                        differences[i][2].differences)

C20_Witness ==
    /\ dpc = "exit"
    /\ \E i \in 1..Len(differences) :
          /\ ~differences[i][2].is_baseline
          /\ LET d == differences[i][2].differences
                 schema2 == differences[i][2].schema_info.schema
             IN  /\ \E j \in 1..Len(d.type_differences) :
                       IsRequiredEntry(d.type_differences[j])
                 /\ \E j \in 1..Len(d.type_differences) :
                       /\ ~IsRequiredEntry(d.type_differences[j])
                       /\ \E x \in FieldsAt(baseline_schema,
                                             d.type_differences[j].path),
                             y \in FieldsAt(schema2,
                                             d.type_differences[j].path) :
                             x.type # y.type /\ x.required # y.required

-----------------------------------------------------------------------------
(* Runs of add_schema: process_log_file reading a log whose lines are all  *)
(* records, so that every line ends in one add_schema call.                *)

\* Longest run of add_schema calls.
MaxAdds == 3

\* {"b": {"a": false}, "a": 2}: RecNested with the keys the other way round
RecNestedBA ==
    JDict(<< <<(<<"b">>), JDict(<< <<(<<"a">>), JBool("false")>> >>)>>,
             <<(<<"a">>), JInt("2")>> >>)
\* {"a": [{"b": {"a": 1}}]}
RecListObj ==
    JDict(<< <<(<<"a">>),
               JList(<< JDict(<< <<(<<"b">>),
                                   JDict(<< <<(<<"a">>), JInt("1")>> >>)>> >>)
                     >>)>> >>)

AddRecords ==
    {RecAB, RecBA, RecA, RecNested, RecNestedBA, RecList1, RecListObj}

\* The extractor with the log open and nothing read yet.
InitAdds ==
    /\ pc = "streaming"
    /\ file_exists = TRUE
    /\ line_number = 0
    /\ lines_read = <<>>
    /\ schemas = <<>>
    /\ processed_count = 0
    /\ failed_count = 0
    /\ failed_records = <<>>
    /\ last_id = ""
    /\ outputs = {}
    /\ report = NoReport
    /\ exit_status = "running"
    /\ FuncIdle
    /\ DiffIdle

\* One iteration of the loop on a record line: json.loads, get_json_schema,
\* add_schema.
AddRecord(v) ==
    /\ line_number < MaxAdds
    /\ ProcessLine([kind |-> "json", raw |-> "record", value |-> v])

NextAdds == \E v \in AddRecords : AddRecord(v)

SpecAdds == InitAdds /\ [][NextAdds]_vars

-----------------------------------------------------------------------------
(* Properties of the registry under runs of add_schema.                    *)

\* The names in 'required' are the keys of 'properties', here and in every
\* schema below.
RECURSIVE RequiredIsKeys(_)
RequiredIsKeys(schema) ==
    CASE schema.type = "object" ->
            /\ Range(schema.required) = KeySet(schema.properties)
            /\ \A i \in 1..Len(schema.properties) :
                  RequiredIsKeys(schema.properties[i][2])
      [] schema.type = "array" -> RequiredIsKeys(schema.items)
      [] OTHER -> TRUE

\* Some object below the root, directly or through an array.
RECURSIVE HasInnerObject(_, _)
HasInnerObject(schema, inner) ==
    CASE schema.type = "object" ->
            \/ inner
            \/ \E i \in 1..Len(schema.properties) :
                  HasInnerObject(schema.properties[i][2], TRUE)
      [] schema.type = "array" -> HasInnerObject(schema.items, inner)
      [] OTHER -> FALSE

\* C22. Required invariant: in every object schema get_json_schema produces,
\* at every nesting depth, the names in 'required' are exactly the keys of
\* 'properties', and this holds of every schema stored in the registry
\* after any run of add_schema calls.
C22_RequiredIsKeys ==
    /\ \A i \in 1..Len(lines_read) :
          RequiredIsKeys(get_json_schema(lines_read[i].value, RootPath))
    /\ \A i \in 1..Len(schemas) : RequiredIsKeys(schemas[i][2].schema)

C22_Witness ==
    /\ Len(schemas) = 3
    /\ \E i \in 1..3 : schemas[i][2].count = 1
                       /\ HasInnerObject(schemas[i][2].schema, FALSE)
                       /\ schemas[i][2].schema.type = "object"
                       /\ \E j \in 1..Len(schemas[i][2].schema.properties) :
                             schemas[i][2].schema.properties[j][2].type = "array"
    /\ \E i \in 1..3 : \E j \in 1..Len(schemas[i][2].schema.properties) :
          schemas[i][2].schema.properties[j][2].type = "object"

\* The injections of 1..n into itself.
Reorderings(n) ==
    {f \in [1..n -> 1..n] : \A i, j \in 1..n : f[i] = f[j] => i = j}

\* Each entry of reg1 has exactly one equal schema in reg2, with its count.
SameCounts(reg1, reg2) ==
    /\ Len(reg1) = Len(reg2)
    /\ \A i \in 1..Len(reg1) :
          LET twins == {j \in 1..Len(reg2) :
                           schemas_equal(reg1[i][2].schema, reg2[j][2].schema)}
          IN  /\ Cardinality(twins) = 1
              /\ \A j \in twins : reg2[j][2].count = reg1[i][2].count

\* C23. Counting is independent of discovery order: the registry of any
\* reordering of the records read holds the same schemas up to
\* schemas_equal, each with the same count.
C23_OrderIndependent ==
    LET n == Len(lines_read)
        reg == schemas
    IN  \A f \in Reorderings(n) :
            SameCounts(reg, RegistryOf([i \in 1..n |-> lines_read[f[i]].value], n))

C23_Witness ==
    /\ Len(lines_read) = 3
    /\ Len(schemas) = 2
    /\ schemas[1][2].sample_lines = <<1, 3>>
    /\ schemas[2][2].sample_lines = <<2>>
    /\ lines_read[1] # lines_read[3]

\* C24. Registry entries are pairwise distinct: no two entries hold
\* schemas that are equal under schemas_equal.
C24_PairwiseDistinct ==
    \A i, j \in 1..Len(schemas) :
        i # j => ~schemas_equal(schemas[i][2].schema, schemas[j][2].schema)

C24_Witness ==
    /\ Len(lines_read) = 3
    /\ Len(schemas) = 2
    /\ schemas[2][2].count = 2
    /\ lines_read[2] # lines_read[3]

\* The step of one add_schema call, seen from the registry before and after.
C29_Step ==
    LET schema == get_json_schema(lines_read'[Len(lines_read')].value, RootPath)
        before == schemas
        after == schemas'
        matches == {i \in 1..Len(before) :
                       schemas_equal(schema, before[i][2].schema)}
    IN  IF matches # {}
        THEN /\ Len(after) = Len(before)
             /\ \E m \in matches :
                   /\ after[m][1] = before[m][1]
                   /\ after[m][2].schema = before[m][2].schema
                   /\ after[m][2].first_seen = before[m][2].first_seen
                   /\ after[m][2].count = before[m][2].count + 1
                   /\ after[m][2].sample_lines =
                         Append(before[m][2].sample_lines, line_number')
                   /\ \A i \in 1..Len(before) : i # m => after[i] = before[i]
        ELSE /\ Len(after) = Len(before) + 1
             /\ SubSeq(after, 1, Len(before)) = before
             /\ after[Len(after)][2] = [schema |-> schema,
                                        count |-> 1,
                                        sample_lines |-> <<line_number'>>,
                                        first_seen |-> line_number']
             /\ \A i \in 1..Len(before) : after[Len(after)][1] # before[i][1]

\* C29. add_schema touches one entry only: a call that matches an entry
\* changes only that entry's count and sample lines, its id, stored schema
\* and first_seen and every other entry staying as they were; a call that
\* matches nothing leaves every entry as it was and adds one entry at the
\* end of the insertion order.
C29_OneEntry == [][C29_Step]_vars

C29_Witness ==
    /\ Len(lines_read) = 3
    /\ Len(schemas) = 2
    /\ schemas[2][2].sample_lines = <<2, 3>>
    /\ get_json_schema(lines_read[3].value, RootPath) # schemas[2][2].schema
    /\ schemas[1][2].count = 1

-----------------------------------------------------------------------------
(* Further properties of inference and comparison.                         *)

\* The schema s of the value v describes every list in v, at any depth, by
\* its first element alone, and an empty list by items of type unknown.
RECURSIVE FirstItemOnly(_, _, _)
FirstItemOnly(v, s, path) ==
    CASE v.k = "list" ->
            IF v.elems = <<>>
            THEN s = [type |-> "array", items |-> [type |-> "unknown"],
                      path |-> path]
            ELSE LET first_path == path \o <<"[", "0", "]">>
                 IN  /\ DOMAIN s = {"type", "items", "path"}
                     /\ s.type = "array"
                     /\ s.path = path
                     /\ s.items = get_json_schema(v.elems[1], first_path)
                     /\ FirstItemOnly(v.elems[1], s.items, first_path)
      [] v.k = "dict" ->
            /\ s.type = "object"
            /\ Len(s.properties) = Len(v.items)
            /\ \A i \in 1..Len(v.items) :
                  FirstItemOnly(v.items[i][2], s.properties[i][2],
                                path \o Dot \o v.items[i][1])
      [] OTHER -> TRUE

\* C21. Array inference policy: the schema of a non-empty array is an
\* array schema whose items is the schema of the first element only,
\* whatever the other elements are, so two non-empty arrays have equal
\* schemas exactly when their first elements have ([1,"x"] and [1,1] are
\* equal, [1,"x"] and ["x",1] are not); the items of the empty array have
\* type unknown.
C21_ArrayPolicy ==
    fpc # "input"
    => /\ FirstItemOnly(va, sa, RootPath)
       /\ FirstItemOnly(vb, sb, RootPath)
       /\ (va.k = "list" /\ vb.k = "list"
             /\ va.elems # <<>> /\ vb.elems # <<>>)
          => (schemas_equal(sa, sb)
                <=> schemas_equal(get_json_schema(va.elems[1], RootPath),
                                  get_json_schema(vb.elems[1], RootPath)))
       /\ (va = JList(<<JInt("1"), JStr("x")>>)
             /\ vb = JList(<<JInt("1"), JInt("1")>>))
          => schemas_equal(sa, sb)
       /\ (va = JList(<<JInt("1"), JStr("x")>>)
             /\ vb = JList(<<JStr("x"), JInt("1")>>))
          => ~schemas_equal(sa, sb)

C21_Witness ==
    /\ fpc = "inferred"
    /\ va = JList(<<JInt("1"), JStr("x")>>)
    /\ vb = JList(<<JInt("1"), JInt("1")>>)
    /\ sa.items.type = "integer"
    /\ schemas_equal(sa, sb)

\* C26. Unequal schemas never diff as identical: when two inferred schemas
\* are not equal under schemas_equal, compare_schemas reports at least one
\* missing field, additional field or type difference.
C26_UnequalDiffer ==
    (fpc = "compared" /\ ~schemas_equal(sa, sb)) => ~NoDifferences(diff)

\* A value is built from objects and primitives only, its property names
\* free of '.'.
RECURSIVE PlainObjectValue(_)
PlainObjectValue(v) ==
    /\ v.k # "list"
    /\ v.k = "dict" =>
          \A i \in 1..Len(v.items) :
             /\ \A j \in 1..Len(v.items[i][1]) : v.items[i][1][j] # "."
             /\ PlainObjectValue(v.items[i][2])

\* Between two objects without arrays and without dotted names, C26 holds.
C26_PlainObjects ==
    (/\ va.k = "dict" /\ vb.k = "dict"
     /\ PlainObjectValue(va) /\ PlainObjectValue(vb))
    => C26_UnequalDiffer

\* C27. No requiredness difference between inferred schemas: comparing
\* two inferred schemas never records an entry with difference_type
\* required_status, every field under a common path being required in
\* both.
C27_NoRequiredness ==
    fpc = "compared"
    => /\ \A i \in 1..Len(diff.type_differences) :
             ~IsRequiredEntry(diff.type_differences[i])
       /\ \A path \in CommonPaths(sa, sb) :
             /\ \A f \in FieldsAt(sa, path) \cup FieldsAt(sb, path) : f.required
             /\ get_field_info(sa, path) # None =>
                   get_field_info(sa, path).required
             /\ get_field_info(sb, path) # None =>
                   get_field_info(sb, path).required

C27_Witness ==
    /\ fpc = "compared"
    /\ Len(diff.type_differences) >= 2
    /\ diff.common_fields >= 2
    /\ \A i \in 1..Len(diff.type_differences) :
          ~IsRequiredEntry(diff.type_differences[i])

====
